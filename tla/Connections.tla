----------------------------- MODULE Connections -----------------------------
(***************************************************************************)
(* The connections of one worker: the pool and its reusable queue          *)
(* (core/ngx_connection.c), epoll and its batch of events                  *)
(* (event/modules/ngx_epoll_module.c), the queue of posted events          *)
(* (event/ngx_event_posted.[ch]), and which of them a handler disturbs.    *)
(*                                                                         *)
(* A worker is one thread, but a handler may close, open, post or register *)
(* any connection while other events of the same batch are still to come.  *)
(* A handler is modelled by all the sequences of such operations on open   *)
(* connections (at most MaxOps of them in a behaviour).  The k-th          *)
(* connection that lives in a slot is the slot's k-th use; uses are        *)
(* history, the code does not see them.                                    *)
(***************************************************************************)
EXTENDS Integers, Sequences, FiniteSets, SequencesExt

CONSTANTS
  NConns,     \* connection_n
  DrainMax,   \* 32 in ngx_drain_connections()
  MaxOps      \* bound: operations of the handlers in a behaviour

ASSUME ConnectionsAssumption ==
  NConns \in Nat \ {0} /\ DrainMax \in Nat \ {0} /\ MaxOps \in Nat

VARIABLES
  conn,      \* cycle->connections, with their read and write events
  free,      \* cycle->free_connections
  reuse,     \* cycle->reusable_connections_queue, head first
  posted,    \* ngx_posted_events, head first
  interest,  \* what the kernel has registered: one entry per slot at most
  batch,     \* event_list entries that are still to be processed
  post,      \* flags & NGX_POST_EVENTS of this turn
  pc,        \* where ngx_process_events_and_timers() is
  run,       \* a handler is running
  ops,       \* operations left to the handlers
  getting,   \* the handler is inside ngx_get_connection()
  left,      \* turns left to ngx_drain_connections()
  accepting, \* ngx_posted_accept_events has the listening socket's event
  crossed    \* history: uses between an event and the one that received it

pool == <<conn, free, reuse, posted, interest, crossed>>
vars == <<conn, free, reuse, posted, interest, batch, post, pc, run,
          ops, getting, left, accepting, crossed>>

Slots == 1..NConns
Dirs  == {"r", "w"}

\* ngx_event_process_init(): all connections are free, c[0] first; the read
\* events have instance 1.
Init ==
  /\ conn = [c \in Slots |-> [open |-> FALSE, instance |-> TRUE, active |-> {},
                              timer |-> FALSE, reusable |-> FALSE, uses |-> 0]]
  /\ free = [c \in Slots |-> c]
  /\ reuse = <<>> /\ posted = <<>> /\ interest = {}
  /\ batch = <<>> /\ post = FALSE /\ pc = "wait" /\ run = FALSE
  /\ ops = MaxOps /\ getting = FALSE /\ left = 0 /\ accepting = FALSE /\ crossed = {}

-----------------------------------------------------------------------------
(* Operations on the pool.  They compose, so each is a function of the     *)
(* record p = [conn, free, reuse, posted, interest].                       *)

Pool == [conn |-> conn, free |-> free, reuse |-> reuse, posted |-> posted,
         interest |-> interest]
Becomes(p) ==
  /\ conn' = p.conn /\ free' = p.free /\ reuse' = p.reuse
  /\ posted' = p.posted /\ interest' = p.interest

\* ngx_queue_remove(), ngx_delete_posted_event()
Without(q, c) ==
  IF c \in ToSet(q) THEN RemoveAt(q, CHOOSE i \in DOMAIN q : q[i] = c) ELSE q
IsFor(e, c, d) == e.slot = c /\ e.dir = d
Unpost(q, c, d) ==
  IF \E i \in DOMAIN q : IsFor(q[i], c, d)
  THEN RemoveAt(q, CHOOSE i \in DOMAIN q : IsFor(q[i], c, d)) ELSE q

\* ngx_reusable_connection()
Reusable(p, c, on) ==
  LET q == IF p.conn[c].reusable THEN Without(p.reuse, c) ELSE p.reuse
  IN [p EXCEPT !.conn[c].reusable = on,
               !.reuse = IF on THEN <<c>> \o q ELSE q]

\* ngx_free_connection(), and close(fd), which ends the registration.
\* Faulty variant: c->data is not set, the rest of the list is lost.
FreeConnectionDrop(p, c) ==
  [p EXCEPT !.free = <<c>>, !.conn[c].open = FALSE,
            !.interest = {e \in @ : e.slot # c}]
FreeConnection(p, c) ==
  [p EXCEPT !.free = <<c>> \o @, !.conn[c].open = FALSE,
            !.interest = {e \in @ : e.slot # c}]

\* ngx_close_connection(): timers, registration, posted events, the reusable
\* queue; then the slot is free.  ngx_del_conn() with NGX_CLOSE_EVENT only
\* clears the flags.
\* Faulty variant: posted events are left in the queue.
CloseConnectionPosted(p, c) ==
  FreeConnection(Reusable([p EXCEPT
       !.conn[c] = [@ EXCEPT !.timer = FALSE, !.active = {}]], c, FALSE), c)
CloseConnection(p, c) ==
  FreeConnection(Reusable([p EXCEPT
       !.conn[c] = [@ EXCEPT !.timer = FALSE, !.active = {}],
       !.posted = Unpost(Unpost(@, c, "r"), c, "w")], c, FALSE), c)

\* ngx_get_connection(): the events are zeroed, the instance bit is flipped.
Fresh(old) == [open |-> TRUE, instance |-> ~old.instance, active |-> {},
               timer |-> FALSE, reusable |-> FALSE, uses |-> old.uses + 1]
GetConnection(p) ==
  [p EXCEPT !.conn[Head(p.free)] = Fresh(@), !.free = Tail(@)]

\* ngx_epoll_add_event(): EPOLL_CTL_MOD with both events if the other one is
\* active, EPOLL_CTL_ADD otherwise.
EventsToAdd(p, c, d) == {d} \cup p.conn[c].active
AddEvent(p, c, d) ==
  [p EXCEPT !.interest = {e \in @ : e.slot # c} \cup
                {[slot |-> c, instance |-> p.conn[c].instance,
                  use |-> p.conn[c].uses, evs |-> EventsToAdd(p, c, d)]},
            !.conn[c].active = @ \cup {d}]

\* ngx_epoll_add_connection()
AddConnection(p, c) ==
  [p EXCEPT !.interest = @ \cup {[slot |-> c, instance |-> p.conn[c].instance,
                                  use |-> p.conn[c].uses, evs |-> Dirs]},
            !.conn[c].active = Dirs]

\* ngx_locked_post_event(): at the head, and once.
Posted(p, c, d) == \E i \in DOMAIN p.posted : IsFor(p.posted[i], c, d)
PostEvent(p, c, d) ==
  IF Posted(p, c, d) THEN p
  ELSE [p EXCEPT !.posted = <<[slot |-> c, dir |-> d,
                               use |-> p.conn[c].uses]>> \o @]

-----------------------------------------------------------------------------
(* What a handler does.                                                    *)

Busy == run /\ ~getting
Op(p) ==
  /\ Busy /\ ops > 0 /\ ops' = ops - 1
  /\ Becomes(p)
  /\ UNCHANGED <<batch, post, pc, run, getting, left, accepting, crossed>>
Open(c) == conn[c].open

HandlerClose(c) == Open(c) /\ Op(CloseConnection(Pool, c))

\* ngx_get_connection() is called; without a free connection it drains first.
HandlerGet ==
  /\ Busy /\ ops > 0 /\ ops' = ops - 1
  /\ getting' = TRUE /\ left' = IF free = <<>> THEN DrainMax ELSE 0
  /\ UNCHANGED <<pool, batch, post, pc, run, accepting>>

\* A turn of the loop in ngx_drain_connections(): c->close and the read
\* handler, which for a connection in the reusable queue is
\* ngx_http_keepalive_handler() and closes it.  The last one of the queue is
\* the oldest.
Draining == getting /\ left > 0 /\ reuse # <<>>
DrainConnections ==
  /\ Draining /\ left' = left - 1
  /\ Becomes(CloseConnection(Pool, Last(reuse)))
  /\ UNCHANGED <<batch, post, pc, run, ops, getting, accepting, crossed>>

\* ngx_get_connection() returns a connection, or NULL.
Return(p) ==
  /\ getting /\ ~Draining
  /\ Becomes(p)
  /\ getting' = FALSE /\ left' = 0
  /\ UNCHANGED <<batch, post, pc, run, ops, accepting, crossed>>
First == Head(free)
\* ngx_event_accept(): the handler of the listening socket registers later.
HandlerAccept == free # <<>> /\ Return(GetConnection(Pool))
\* ngx_close_accepted_connection(): an error before anything is set up, so
\* nothing but the slot is given back.
HandlerAcceptFailed ==
  free # <<>> /\ Return(FreeConnection(GetConnection(Pool), First))
\* ngx_event_connect_peer(): both events are registered before connect(); a
\* connect() that fails at once closes the connection again.
HandlerConnect ==
  free # <<>> /\ Return(AddConnection(GetConnection(Pool), First))
HandlerConnectFailed ==
  /\ free # <<>>
  /\ Return(CloseConnection(AddConnection(GetConnection(Pool), First), First))
\* "worker_connections are not enough"
HandlerNoConnection == free = <<>> /\ Return(Pool)

\* ngx_handle_read_event(), ngx_handle_write_event()
HandlerAddEvent(c, d) ==
  Open(c) /\ d \notin conn[c].active /\ Op(AddEvent(Pool, c, d))
HandlerPost(c, d) ==
  Open(c) /\ ~Posted(Pool, c, d) /\ Op(PostEvent(Pool, c, d))
\* ngx_add_timer(), ngx_del_timer(): timer says that the read or the write
\* event has one set.
HandlerTimer(c) == Open(c) /\ Op([Pool EXCEPT !.conn[c].timer = ~@])
\* ngx_http_set_keepalive() and ngx_http_keepalive_handler()
HandlerReusable(c) ==
  Open(c) /\ Op(Reusable(Pool, c, ~conn[c].reusable))

HandlerReturn ==
  /\ Busy /\ run' = FALSE
  /\ UNCHANGED <<pool, batch, post, pc, ops, getting, left, accepting>>

Handler ==
  \/ HandlerGet \/ DrainConnections
  \/ HandlerAccept \/ HandlerAcceptFailed
  \/ HandlerConnect \/ HandlerConnectFailed \/ HandlerNoConnection
  \/ HandlerReturn
  \/ \E c \in Slots :
       \/ HandlerClose(c) \/ HandlerReusable(c) \/ HandlerTimer(c)
       \/ \E d \in Dirs : HandlerAddEvent(c, d) \/ HandlerPost(c, d)

-----------------------------------------------------------------------------
(* ngx_epoll_process_events()                                              *)

At(l) == pc = l /\ ~run

\* epoll_wait(): some of the registered sockets, in any order, and perhaps
\* the listening socket, slot 0.  An error is reported as both events.
Reported(e) == {[slot |-> e.slot, instance |-> e.instance, use |-> e.use,
                 evs |-> evs] : evs \in ((SUBSET e.evs) \ {{}}) \cup {Dirs}}
Listening == [slot |-> 0, instance |-> TRUE, use |-> 0, evs |-> {"r"}]
EpollWait ==
  /\ At("wait")
  /\ \E some \in SUBSET interest :
       \E rep \in [some -> UNION {Reported(e) : e \in some}] :
         /\ \A e \in some : rep[e] \in Reported(e)
         /\ \E l \in SUBSET {Listening} :
              batch' \in SetToSeqs({rep[e] : e \in some} \cup l)
  /\ post' \in BOOLEAN
  /\ pc' = "read"
  /\ UNCHANGED <<pool, run, ops, getting, left, accepting>>

\* The event is for the connection that now lives in the slot, or not.
Cross(e) == crossed' = IF conn[e.slot].uses = e.use THEN crossed
                       ELSE crossed \cup {conn[e.slot].uses - e.use}
Deliver(e, d) ==
  /\ Cross(e)
  /\ IF post THEN Becomes(PostEvent(Pool, e.slot, d)) /\ UNCHANGED run
     ELSE run' = TRUE /\ UNCHANGED <<conn, free, reuse, posted, interest>>

Stale(e) == ~conn[e.slot].open \/ conn[e.slot].instance # e.instance

EpollListening ==
  /\ At("read") /\ batch # <<>> /\ Head(batch).slot = 0
  /\ batch' = Tail(batch)
  /\ IF post THEN accepting' = TRUE /\ UNCHANGED run
     ELSE run' = TRUE /\ UNCHANGED accepting
  /\ UNCHANGED <<pool, post, pc, ops, getting, left>>
EpollStale ==
  /\ At("read") /\ batch # <<>> /\ Head(batch).slot # 0 /\ Stale(Head(batch))
  /\ batch' = Tail(batch)
  /\ UNCHANGED <<pool, post, pc, run, ops, getting, left, accepting>>
EpollRead ==
  /\ At("read") /\ batch # <<>> /\ Head(batch).slot # 0 /\ ~Stale(Head(batch))
  /\ pc' = "write"
  /\ LET e == Head(batch) IN
     IF "r" \in e.evs /\ "r" \in conn[e.slot].active
     THEN Deliver(e, "r") ELSE UNCHANGED <<pool, run>>
  /\ UNCHANGED <<batch, post, ops, getting, left, accepting>>

\* The instance is looked at again: the read handler may have closed the slot.
EpollWrite ==
  /\ At("write")
  /\ pc' = "read" /\ batch' = Tail(batch)
  /\ LET e == Head(batch) IN
     IF "w" \in e.evs /\ "w" \in conn[e.slot].active /\ ~Stale(e)
     THEN Deliver(e, "w") ELSE UNCHANGED <<pool, run>>
  /\ UNCHANGED <<post, ops, getting, left, accepting>>

\* The batch is done: the accept handler, if it was posted, then the timers.
EpollDone ==
  /\ At("read") /\ batch = <<>>
  /\ pc' = "timers"
  /\ run' = accepting
  /\ accepting' = FALSE
  /\ UNCHANGED <<pool, batch, post, ops, getting, left>>

\* ngx_event_expire_timers()
ExpireTimer(c) ==
  /\ At("timers") /\ conn[c].timer
  /\ conn' = [conn EXCEPT ![c].timer = FALSE]
  /\ run' = TRUE
  /\ UNCHANGED <<free, reuse, posted, interest, batch, post, pc, ops,
                 getting, left, accepting, crossed>>
TimersDone ==
  /\ At("timers") /\ pc' = "posted"
  /\ UNCHANGED <<pool, batch, post, run, ops, getting, left, accepting>>

\* ngx_event_process_posted()
ProcessPosted ==
  /\ At("posted") /\ posted # <<>>
  /\ posted' = Tail(posted)
  /\ run' = TRUE
  /\ UNCHANGED <<conn, free, reuse, interest, batch, post, pc, ops,
                 getting, left, accepting, crossed>>
PostedDone ==
  /\ At("posted") /\ posted = <<>> /\ pc' = "wait"
  /\ UNCHANGED <<pool, batch, post, run, ops, getting, left, accepting>>

Next ==
  \/ Handler
  \/ EpollWait \/ EpollListening \/ EpollStale \/ EpollRead \/ EpollWrite
  \/ EpollDone
  \/ \E c \in Slots : ExpireTimer(c)
  \/ TimersDone \/ ProcessPosted \/ PostedDone

Spec == Init /\ [][Next]_vars

-----------------------------------------------------------------------------
\* The pool, the queues and the epoll registrations have their types.
TypeOK ==
  /\ conn \in [Slots -> [open : BOOLEAN, instance : BOOLEAN,
                          active : SUBSET Dirs, timer : BOOLEAN,
                          reusable : BOOLEAN, uses : Nat]]
  /\ free \in Seq(Slots) /\ reuse \in Seq(Slots)
  /\ posted \in Seq([slot : Slots, dir : Dirs, use : Nat])
  /\ interest \subseteq [slot : Slots, instance : BOOLEAN, use : Nat,
                          evs : (SUBSET Dirs) \ {{}}]
  /\ batch \in Seq([slot : 0..NConns, instance : BOOLEAN, use : Nat,
                     evs : (SUBSET Dirs) \ {{}}])
  /\ post \in BOOLEAN /\ accepting \in BOOLEAN
  /\ pc \in {"wait", "read", "write", "timers", "posted"}
  /\ getting \in BOOLEAN /\ left \in 0..DrainMax
  /\ run \in BOOLEAN /\ ops \in 0..MaxOps /\ crossed \subseteq Nat

\* Every slot is either open or on the free list, once: none leaks, none is
\* handed out twice; and a free slot has left no timer and no flag behind
\* that its next use would inherit.  The state has its type.
PoolPartition ==
  /\ TypeOK
  /\ IsInjective(free)
  /\ ToSet(free) = {c \in Slots : ~conn[c].open}
  /\ \A c \in Slots : ~conn[c].open =>
       conn[c].active = {} /\ ~conn[c].timer /\ ~conn[c].reusable

\* ngx_drain_connections() closes what it finds in the reusable queue, so the
\* queue holds exactly the open connections that are marked, each once; and
\* "worker_connections are not enough" is only reported when not even an idle
\* keepalive connection could be given up.
ReusableQueue ==
  /\ IsInjective(reuse)
  /\ ToSet(reuse) = {c \in Slots : conn[c].open /\ conn[c].reusable}
  /\ getting /\ ~Draining /\ free = <<>> =>
       reuse = <<>> /\ \A c \in Slots : conn[c].open

\* A posted event is one of an open connection, and of the same connection it
\* was posted for: closing never leaves an event in the queue whose handler
\* would then run for the slot's next use.
PostedAlive ==
  /\ \A i \in DOMAIN posted : LET e == posted[i] IN
       conn[e.slot].open /\ conn[e.slot].uses = e.use
  /\ \A i, j \in DOMAIN posted :
       posted[i].slot = posted[j].slot /\ posted[i].dir = posted[j].dir => i = j

\* What epoll watches is what the active flags say, under the instance of the
\* connection's present use.
RegistrationMatches ==
  \A c \in Slots :
    {e \in interest : e.slot = c} =
      IF conn[c].active = {} THEN {}
      ELSE {[slot |-> c, instance |-> conn[c].instance, use |-> conn[c].uses,
             evs |-> conn[c].active]}

\* "the stale event from a file descriptor that was just closed in this
\* iteration" is recognised by one instance bit: an event only ever reaches a
\* later connection if the slot was closed and used again twice (or any even
\* number of times) within one batch.
StaleNeedsTwoReuses == \A d \in crossed : d % 2 = 0

\* Every slot of the connection array is free or in use, once, and the idle
\* ones that can be given up are known: ngx_get_connection() never hands out a
\* connection in use and fails only when nothing can be reused.
PoolSound == PoolPartition /\ ReusableQueue

\* What epoll watches, what is posted and what a batch delivers belongs to the
\* present use of a slot, but for the one case that the instance bit misses.
EventsFollowConnections == PostedAlive /\ RegistrationMatches /\ StaleNeedsTwoReuses
==============================================================================
