------------------------------ MODULE Resolver ------------------------------
(***************************************************************************)
(* The DNS resolver of core/ngx_resolver.c: a cache of names and addresses *)
(* whose nodes are in the resend queue while a query is under way and in   *)
(* the expire queue once it is answered, and the contexts that wait for    *)
(* them.  One UDP socket, one resend timer for both trees.  Datagrams get  *)
(* lost, late, duplicated and reordered: a response to the query of a node *)
(* may come as long as the node has it, also when it was answered; one     *)
(* with the identifier of an older query has no effect, and is like the    *)
(* other when the random identifiers are the same.  Allocation does not    *)
(* fail.  A context's handler finishes its context, as                     *)
(* ngx_http_upstream_resolve_handler() does.                               *)
(***************************************************************************)
EXTENDS Naturals, Sequences, FiniteSets, SequencesExt

CONSTANTS
  Names, Addrs,     \* what is resolved: names (A) and addresses (PTR)
  Malformed,        \* the names with an empty label, a subset of Names
  Ctxs,             \* the contexts
  ResendTimeout, Expire, Valid,   \* r->resend_timeout, r->expire, r->valid
  MaxRecursion,     \* NGX_RESOLVER_MAX_RECURSION
  MaxTime           \* bound: seconds that pass

VARIABLES
  r,     \* the resolver: the two trees, the four queues, the timer
  now    \* ngx_time()

vars == <<r, now>>

Keys == Names \cup Addrs
Kind(k) == IF k \in Names THEN "name" ELSE "addr"
Kinds == {"name", "addr"}
FreeCtx == [state |-> "free", key |-> "none", timer |-> FALSE, recursion |-> 0]

Init ==
  /\ now = 1
  /\ r = [ node |-> <<>>,              \* the trees: key -> node
           resend |-> [d \in Kinds |-> <<>>],
           expire |-> [d \in Kinds |-> <<>>],
           timer |-> 0,                \* r->event, 0: not set
           ctx |-> [c \in Ctxs |-> FreeCtx],
           twice |-> FALSE,     \* history: a node outside the queues was unlinked
           unsent |-> FALSE,    \* history: a resend or a follow-up failed
           split |-> FALSE,     \* history: several contexts met a CNAME
           alerts |-> 0 ]              \* history: "could not cancel"
----------------------------------------------------------------------------
(* The queues and the trees *)

Queued(s, k) == k \in Range(s.resend[Kind(k)]) \cup Range(s.expire[Kind(k)])

Unlink(s, k) ==
  [s EXCEPT !.resend[Kind(k)] = SelectSeq(@, LAMBDA x : x # k),
            !.expire[Kind(k)] = SelectSeq(@, LAMBDA x : x # k),
            !.twice = @ \/ ~Queued(s, k)]

(* ngx_rbtree_delete() and ngx_resolver_free_node() *)
Forget(s, k) == [s EXCEPT !.node = [x \in DOMAIN @ \ {k} |-> @[x]]]

ExpireOne(s, d) ==
  LET q == s.expire[d] IN
  IF q # <<>> /\ now > s.node[Last(q)].expire
  THEN Forget(Unlink(s, Last(q)), Last(q)) ELSE s

ExpireNodes(s, d) == ExpireOne(ExpireOne(s, d), d)

Cached(s, k) ==
  [Unlink(s, k) EXCEPT !.node[k].expire = now + Expire,
                       !.expire[Kind(k)] = <<k>> \o @]
----------------------------------------------------------------------------
(* Contexts *)

Waits(s, c) == s.ctx[c].state = "again"

(* a mutant: the context stays in the list *)
DoneLeavesWaiting(s, c, why) ==
  LET s2 == ExpireNodes(s, Kind(s.ctx[c].key)) IN [s2 EXCEPT !.ctx[c] = FreeCtx]

Done(s, c, why) ==
  LET k == s.ctx[c].key
      here == k \in DOMAIN s.node /\ c \in Range(s.node[k].waiting)
      s1 == IF why \notin {"again", "timedout"} THEN s
            ELSE IF here
            THEN [s EXCEPT !.node[k].waiting = SelectSeq(@, LAMBDA x : x # c)]
            ELSE [s EXCEPT !.alerts = 1]
      s2 == ExpireNodes(s1, Kind(k))
  IN [s2 EXCEPT !.ctx[c] = FreeCtx]

(* the handlers of a detached list, each of which finishes its context *)
CallHandlers(s, list, why) ==
  FoldLeft(LAMBDA acc, c : Done(acc, c, why), s, list)
----------------------------------------------------------------------------
(* Queries *)

(* ngx_resolver_create_name_query(), ngx_resolver_create_addr_query() and
   the rest of ngx_resolve_name_locked() and ngx_resolve_addr(): a query for
   a node that is in no queue, on behalf of a list of contexts *)
TimerWhenEmpty(s, d) ==
  IF s.resend[d] = <<>> THEN now + ResendTimeout ELSE s.timer

SendQuery(s, k, list) ==
  [s EXCEPT
     !.node = [x \in {k} |->
                 [valid |-> 0, expire |-> now + ResendTimeout,
                  answer |-> "none", waiting |-> list]] @@ @,
     !.ctx[Head(list)].state = "again",
     !.ctx[Head(list)].timer = TRUE,
     !.timer = TimerWhenEmpty(s, Kind(k)),
     !.resend[Kind(k)] = <<k>> \o @]

(* the cached names a lookup of n passes through *)
CnameChain(s, n, depth) ==
  LET IsCname(x) == /\ x \in DOMAIN s.node
                    /\ s.node[x].valid >= now
                    /\ s.node[x].answer \in Names
      chain[i \in 0..depth] ==
        IF i = 0 THEN <<n>>
        ELSE IF IsCname(Last(chain[i - 1]))
             THEN Append(chain[i - 1], s.node[Last(chain[i - 1])].answer)
             ELSE chain[i - 1]
  IN chain[depth]

(* ngx_resolve_name_locked() and, for an address, ngx_resolve_addr(): the
   first context of the list asks for k.  A context that joins others, or
   that finds an answer, leaves the contexts behind it on their own.  In a
   failure the caller owns the context. *)
ResolveLocked(s, list, k, sends) ==
  LET c     == Head(list)
      chain == CnameChain(s, k, MaxRecursion - s.ctx[c].recursion)
      n     == Last(chain)
      s1    == FoldLeft(LAMBDA acc, x : Cached(acc, x),
                        [s EXCEPT !.ctx[c].key = n,
                                  !.ctx[c].recursion = @ + Len(chain) - 1],
                        Front(chain))
      alone == Len(list) = 1
      known == n \in DOMAIN s.node
  IN IF known /\ s.node[n].valid >= now
     THEN [ st |-> [CallHandlers(Cached(s1, n), <<c>>,
                      IF s.node[n].answer = "addr" THEN "ok" ELSE "nxdomain")
                    EXCEPT !.split = @ \/ ~alone],
            rc |-> "ok" ]
     ELSE IF known /\ s.node[n].waiting # <<>>
     THEN [ st |-> [s1 EXCEPT !.node[n].waiting = <<c>> \o @,
                              !.ctx[c].state = "again",
                              !.split = @ \/ ~alone],
            rc |-> "again" ]
     ELSE LET s2 == IF known THEN Unlink(s1, n) ELSE s1 IN
          IF n \in Malformed
          THEN [st |-> CallHandlers(Forget(s2, n), <<c>>, "nxdomain"), rc |-> "ok"]
          ELSE IF sends
          THEN [ st |-> [SendQuery(s2, n, list) EXCEPT
                           !.split = @ \/ ~alone],
                 rc |-> "again" ]
          ELSE [st |-> Forget(s2, n), rc |-> "error"]

Ask(c, k, sends) ==
  /\ r.ctx[c].state = "free"
  /\ LET s0  == [r EXCEPT !.ctx[c] = [state |-> "new", key |-> k,
                                      timer |-> FALSE, recursion |-> 0]]
         res == ResolveLocked(s0, <<c>>, k, sends)
     IN r' = IF res.rc = "error" THEN [res.st EXCEPT !.ctx[c] = FreeCtx]
             ELSE res.st
  /\ UNCHANGED now

(* ngx_resolve_name() *)
ResolveName(c, k, sends) == k \in Names /\ Ask(c, k, sends)

(* ngx_resolve_addr(): the same for an address, which has no other names *)
ResolveAddr(c, k, sends) == k \in Addrs /\ Ask(c, k, sends)

(* the request is over before the answer came *)
Cancel(c) ==
  /\ Waits(r, c)
  /\ r' = Done(r, c, "again")
  /\ UNCHANGED now

(* ngx_resolver_timeout_handler() *)
Timeout(c) ==
  /\ Waits(r, c) /\ r.ctx[c].timer
  /\ r' = Done(r, c, "timedout")
  /\ UNCHANGED now
----------------------------------------------------------------------------
(* Resending *)

(* ngx_resolver_resend(): the last node of the queue is the oldest; a node
   sent again goes to its head, so every node is passed at most once *)
ResendOne(s, d, sends) ==
  LET q == s.resend[d] k == Last(q) IN
  IF q = <<>> \/ now < s.node[k].expire THEN s
  ELSE LET s1 == Unlink(s, k) IN
       IF s.node[k].waiting = <<>> THEN Forget(s1, k)
       ELSE IF sends THEN [s1 EXCEPT !.node[k].expire = now + ResendTimeout,
                                     !.resend[d] = <<k>> \o @]
       ELSE [s1 EXCEPT !.unsent = TRUE]

Resend(s, d, sends) ==
  FoldLeft(LAMBDA acc, i : ResendOne(acc, d, sends), s,
           [i \in 1..Len(s.resend[d]) |-> i])

NextResend(s) ==
  LET due == {s.node[Last(s.resend[d])].expire :
                d \in {x \in Kinds : s.resend[x] # <<>>}}
  IN IF due = {} THEN 0 ELSE CHOOSE t \in due : \A u \in due : t <= u

ResendHandler(sends) ==
  /\ r.timer # 0 /\ r.timer <= now
  /\ LET s == Resend(Resend(r, "name", sends), "addr", sends)
     IN r' = [s EXCEPT !.timer = NextResend(s)]
  /\ UNCHANGED now
----------------------------------------------------------------------------
(* Responses *)

(* the node is found and has the identifier of the response *)
Expected(k) == k \in DOMAIN r.node

(* an error code, or no answers *)
Failed(k) == CallHandlers(Forget(Unlink(r, k), k), r.node[k].waiting, "nxdomain")

Answered(k) ==
  LET s == [Cached(r, k) EXCEPT !.node[k].valid = now + Valid,
                                !.node[k].answer = "addr",
                                !.node[k].waiting = <<>>]
  IN CallHandlers(s, r.node[k].waiting, "ok")

(* ngx_resolver_process_a(): an error, addresses *)
ResponseError(k) == Expected(k) /\ k \in Names /\ r' = Failed(k) /\ UNCHANGED now
ResponseAnswer(k) == Expected(k) /\ k \in Names /\ r' = Answered(k) /\ UNCHANGED now

(* ngx_resolver_process_ptr() *)
ResponsePtr(k) ==
  Expected(k) /\ k \in Addrs /\ r' \in {Failed(k), Answered(k)} /\ UNCHANGED now

(* with a CNAME only: the first waiting context asks for that name, and the
   rest of its list goes with it when a query is sent *)
ResponseCname(k, cname, sends) ==
  /\ Expected(k) /\ k \in Names
  /\ LET list == r.node[k].waiting
         s    == [Cached(r, k) EXCEPT !.node[k].valid = now + Valid,
                                      !.node[k].answer = cname,
                                      !.node[k].waiting = <<>>]
         res  == ResolveLocked(s, list, cname, sends)
     IN r' = IF list = <<>> THEN s
             ELSE [res.st EXCEPT !.split = @ \/ Len(list) > 1,
                                 !.unsent = @ \/ res.rc = "error"]
  /\ UNCHANGED now

(* a response that is short, malformed, unexpected or without an answer of a
   known type leaves nothing but a message in the log *)

Tick == now < MaxTime /\ now' = now + 1 /\ UNCHANGED r

Step ==
  \/ \E c \in Ctxs, k \in Keys, ok \in BOOLEAN :
       ResolveName(c, k, ok) \/ ResolveAddr(c, k, ok)
  \/ \E c \in Ctxs : Cancel(c) \/ Timeout(c)
  \/ \E ok \in BOOLEAN : ResendHandler(ok)
  \/ \E k \in Keys : ResponseError(k) \/ ResponseAnswer(k) \/ ResponsePtr(k)
  \/ \E k \in Keys, n \in Names \ Malformed, ok \in BOOLEAN :
       ResponseCname(k, n, ok)
  \/ Tick

(* nothing is known of the queues once a node was unlinked twice, or of a
   list with a context that was freed (which takes split, see WaitersLive);
   and one of the two other histories at a time is enough *)
Defined ==
  /\ ~r.twice /\ ~(r.unsent /\ r.split)
  /\ \A k \in DOMAIN r.node : \A c \in Range(r.node[k].waiting) : Waits(r, c)

Next == Defined /\ Step

Spec == Init /\ [][Next]_vars
----------------------------------------------------------------------------
(* Properties.  The code unlinks a node that a failed resend left outside
   the queues: what that does to the queues is undefined, so they all stop
   there (twice). *)

(* A waiting context is in one list, the list of the node it would be
   cancelled from, and no list holds a context that is finished - unless
   several contexts met a CNAME together, whose names are then not all those
   of the node they wait at. *)
WaitersLive ==
  ~r.twice /\ ~r.split =>
    /\ \A k \in DOMAIN r.node : \A i \in DOMAIN r.node[k].waiting :
         LET c == r.node[k].waiting[i] IN
         /\ Waits(r, c) /\ r.ctx[c].key = k
         /\ \A j \in DOMAIN r.node[k].waiting :
              r.node[k].waiting[j] = c => i = j
    /\ r.unsent \/ r.alerts = 0

(* Every node of a tree is in exactly one queue of its tree: the resend
   queue while contexts wait for it, the expire queue while it has an answer
   that is still valid.  The expire queue is ordered by the time of expiry, so
   looking at its last two nodes never leaves an older one behind. *)
QueuesCover ==
  ~r.twice /\ ~r.unsent =>
    /\ \A k \in Keys : \A d \in Kinds :
         Len(SelectSeq(r.resend[d] \o r.expire[d], LAMBDA x : x = k))
           = IF k \in DOMAIN r.node /\ d = Kind(k) THEN 1 ELSE 0
    /\ \A k \in DOMAIN r.node :
         /\ r.node[k].waiting # <<>> => k \in Range(r.resend[Kind(k)])
         /\ r.node[k].valid >= now => k \in Range(r.expire[Kind(k)])
    /\ \A d \in Kinds : \A i, j \in DOMAIN r.expire[d] :
         i < j => r.node[r.expire[d][i]].expire >= r.node[r.expire[d][j]].expire

(* A context that waits is never forgotten: it has a timer of its own, or the
   query it waits for will be sent again, the timer of that being set. *)
NeverForgotten ==
  ~r.twice /\ ~r.unsent /\ ~r.split =>
    /\ \A d \in Kinds : r.resend[d] # <<>> =>
         r.timer # 0 /\ r.timer <= now + ResendTimeout
    /\ \A c \in Ctxs : Waits(r, c) /\ ~r.ctx[c].timer =>
         \E k \in DOMAIN r.node : /\ c \in Range(r.node[k].waiting)
                                  /\ k \in Range(r.resend[Kind(k)])

==============================================================================
