------------------------------ MODULE Upstream ------------------------------
(***************************************************************************)
(* Requests of one worker to a group of upstream servers:                  *)
(* http/ngx_http_upstream.c from the choice of a peer to the head of the   *)
(* response, with http/ngx_http_upstream_round_robin.c and                 *)
(* modules/ngx_http_upstream_ip_hash_module.c.  The peers, their weights   *)
(* and failures are shared by the requests.  The transfer of the body is   *)
(* in EventPipe, the cache in FileCache.                                   *)
(***************************************************************************)
EXTENDS Integers, Sequences, FiniteSets, SequencesExt

CONSTANTS
  Requests,
  Confs,        \* the configurations of the group
  MaxTime,      \* bound: seconds that pass
  Alert         \* bound: the attempts of a request that are counted

(* A configuration: servers, a sequence of [weight, max_fails, down, backup];
   hash, ip_hash with these three octets or <<>>; resolved, the number of
   addresses a name in proxy_pass had, or 0; next, the failures of
   proxy_next_upstream; cacheable, whether the response may be cached. *)

VARIABLES
  conf,     \* the configuration
  peers,    \* per table and level (1, 2: backup): the peers
  req,      \* the requests
  running,  \* the request whose handler is in ngx_http_upstream_connect()
  now,      \* ngx_time()
  mercy     \* history: the requests during which failures were forgotten

vars == <<conf, peers, req, running, now, mercy>>

FailTimeout == 1
Failures == {"error", "timeout", "invalid_header", "http_500", "http_404"}
----------------------------------------------------------------------------
(* ngx_http_upstream_init_round_robin(): the peers by falling weight; a down
   primary has no weight *)
Peer(s) == [weight |-> s.weight, current_weight |-> s.weight, fails |-> 0,
            accessed |-> 0, max_fails |-> s.max_fails, down |-> s.down]

ByWeight(s) == SortSeq(s, LAMBDA a, b : a.weight > b.weight)

InitRoundRobin(servers) ==
  LET Pick(b) == SelectSeq(servers, LAMBDA s : s.backup = b)
      Primary(s) == Peer(IF s.down THEN [s EXCEPT !.weight = 0] ELSE s)
      main == Pick(FALSE)
      reserve == Pick(TRUE)
  IN << ByWeight([i \in DOMAIN main |-> Primary(main[i])]),
        ByWeight([i \in DOMAIN reserve |-> Peer(reserve[i])]) >>

(* ngx_http_upstream_create_round_robin_peer(): a table for one request *)
CreateRoundRobin(n) ==
  << [i \in 1..n |-> Peer([weight |-> 1, max_fails |-> 1, down |-> FALSE])],
     <<>> >>

Single(table) == Len(table[1]) = 1 /\ table[2] = <<>>

NoRequest ==
  [phase |-> "idle", tries |-> 0, level |-> 1, current |-> 1, tried |-> {},
   hash |-> 89, htries |-> 0, wtimer |-> FALSE, client |-> TRUE,
   attempts |-> 0, heads |-> 0, late |-> FALSE, stuck |-> FALSE]

Table(q) == IF conf.resolved > 0 THEN q ELSE "conf"

Init ==
  /\ conf \in Confs
  /\ peers = [t \in Requests \cup {"conf"} |->
                IF t = "conf" THEN InitRoundRobin(conf.servers)
                ELSE CreateRoundRobin(conf.resolved)]
  /\ req = [q \in Requests |-> NoRequest]
  /\ running = "none"
  /\ now = 0
  /\ mercy = {}
----------------------------------------------------------------------------
(* Peers.  A choice is a record: ps, the peers of all levels; x, the data of
   the request; rc. *)

(* ngx_http_upstream_get_peer(): of the peers with a current weight, the
   first that is ahead of the next one; when there is none, once more with
   all the weights restored *)
Weighted(p) == SelectSeq([i \in 1..Len(p) |-> i], LAMBDA i : p[i].current_weight > 0)

Ahead(p, n, i) ==
  (p[n].current_weight * 1000) \div p[i].current_weight
    > (p[n].weight * 1000) \div p[i].weight

Foremost(w, ahead) ==
  IF w = <<>> THEN 1
  ELSE IF ahead = {} THEN Last(w)
  ELSE w[CHOOSE j \in ahead : \A k \in ahead : j <= k]

Best(p, w) ==
  [p |-> p, n |-> Foremost(w, {j \in 1..(Len(w) - 1) : Ahead(p, w[j], w[j + 1])})]

Restored(p) == [i \in 1..Len(p) |-> [p[i] EXCEPT !.current_weight = p[i].weight]]

GetPeer(p) ==
  LET used == IF Weighted(p) # <<>> THEN p ELSE Restored(p)
  IN Best(used, Weighted(used))

(* what the loops ask of a peer that was not tried *)
Usable(peer) ==
  /\ ~peer.down
  /\ \/ peer.max_fails = 0
     \/ peer.fails < peer.max_fails
     \/ now - peer.accessed > FailTimeout

Forgiven(peer) ==
  IF peer.max_fails = 0 \/ peer.fails < peer.max_fails THEN peer
  ELSE [peer EXCEPT !.fails = 0]

(* one turn of the loop of ngx_http_upstream_get_round_robin_peer(), where g is
   the peer to look at; i turns are left *)
Chosen(a, g, peer) ==
  [ p |-> [g.p EXCEPT ![g.n] = [Forgiven(peer) EXCEPT !.current_weight = @ - 1]],
    x |-> [a.x EXCEPT !.current = g.n, !.tried = @ \cup {g.n}],
    i |-> a.i, rc |-> "ok" ]

Passed(a, g, peer, new, next, tries) ==
  [ p |-> IF new /\ ~peer.down
          THEN [g.p EXCEPT ![g.n].current_weight = 0] ELSE g.p,
    x |-> [a.x EXCEPT !.current = next, !.tries = tries,
                      !.tried = IF new /\ peer.down THEN @ \cup {g.n} ELSE @,
                      !.stuck = @ \/ (tries # 0 /\ a.i = 1)],
    i |-> a.i - 1,
    rc |-> IF tries = 0 \/ a.i = 1 THEN "failed" ELSE "loop" ]

LookAt(a, g, peer, new, first) ==
  IF new /\ Usable(peer) THEN Chosen(a, g, peer)
  ELSE Passed(a, g, peer, new,
              IF first THEN g.n ELSE IF g.n = Len(g.p) THEN 1 ELSE g.n + 1,
              IF new THEN a.x.tries - 1 ELSE a.x.tries)

GetTurn(a, first) ==
  IF a.rc # "loop" THEN a
  ELSE LET Look(g) == LookAt(a, g, g.p[g.n], g.n \notin a.x.tried, first)
       IN Look(IF first THEN GetPeer(a.p) ELSE [p |-> a.p, n |-> a.x.current])

(* on one level *)
GetOnLevel(p, x) ==
  LET first == x.tries = Len(p)
  IN FoldLeft(LAMBDA a, k : GetTurn(a, first),
              [p |-> p, x |-> x, i |-> x.tries, rc |-> "loop"],
              [k \in 1..(Len(p) + 1) |-> k])

(* when the last primary was chosen the backups are to follow it *)
WithBackups(x, reserve) ==
  IF x.tries = 1 /\ x.level = 1 /\ reserve # <<>>
  THEN [x EXCEPT !.tries = 1 + Len(reserve), !.tried = {}] ELSE x

(* a mutant: the failures stay *)
PardonNone(p) == p

Pardon(p) == [i \in DOMAIN p |-> [p[i] EXCEPT !.fails = 0]]

(* ngx_http_upstream_get_round_robin_peer(): a is the outcome on the level of
   the request, b the one on the level of the backups, tried when a failed *)
FromLevel(table, level, a) ==
  IF a.rc = "ok"
  THEN [ps |-> [table EXCEPT ![level] = a.p], x |-> WithBackups(a.x, table[2]), rc |-> "ok"]
  ELSE [ps |-> [table EXCEPT ![level] = Pardon(a.p)], x |-> a.x, rc |-> "busy"]

FromBackups(a, b) ==
  IF b.rc = "ok" THEN [ps |-> <<a.p, b.p>>, x |-> b.x, rc |-> "ok"]
  ELSE [ps |-> <<Pardon(a.p), Pardon(b.p)>>, x |-> b.x, rc |-> "busy"]

GetRoundRobin(table, x0) ==
  LET Then(a) ==
        IF a.rc # "ok" /\ x0.level = 1 /\ table[2] # <<>>
        THEN FromBackups(a, GetOnLevel(table[2],
                              [a.x EXCEPT !.level = 2, !.tries = Len(table[2]),
                                          !.tried = {}]))
        ELSE FromLevel(table, x0.level, a)
  IN IF Single(table)
     THEN [ps |-> table, x |-> [x0 EXCEPT !.current = 1], rc |-> "ok"]
     ELSE Then(GetOnLevel(table[x0.level], x0))

(* ngx_http_upstream_get_ip_hash_peer() *)
HashOf(h, addr) == FoldLeft(LAMBDA acc, o : (acc * 113 + o) % 6271, h, addr)

HashLook(a, h, cur, new) ==
  IF new /\ Usable(a.p[cur])
  THEN [ p |-> [a.p EXCEPT ![cur] = Forgiven(@)], h |-> h,
         x |-> [a.x EXCEPT !.current = cur, !.tried = @ \cup {cur}, !.hash = h],
         rc |-> "ok" ]
  ELSE [ p |-> a.p, h |-> h,
         x |-> [a.x EXCEPT !.tries = IF new THEN @ - 1 ELSE @,
                           !.tried = @ \cup {cur}, !.htries = @ + 1],
         rc |-> IF a.x.htries + 1 >= 20 THEN "rr" ELSE "loop" ]

HashTurn(a, addr) ==
  LET At(h, cur) == HashLook(a, h, cur, cur \notin a.x.tried)
      With(h) == At(h, (h % Len(a.p)) + 1)
  IN IF a.rc # "loop" THEN a ELSE With(HashOf(a.h, addr))

ByHash(table, x0, addr) ==
  FoldLeft(LAMBDA a, k : HashTurn(a, addr),
           [p |-> table[x0.level], h |-> x0.hash, x |-> x0, rc |-> "loop"],
           [k \in 1..20 |-> k])

(* a is the outcome of the hash: round robin follows it, from the start, when
   there is none *)
Get(table, x) ==
  LET hashed == conf.hash # <<>> /\ x.htries <= 20 /\ ~Single(table)
      Found(a) == [ps |-> [table EXCEPT ![x.level] = a.p], x |-> a.x, rc |-> a.rc]
      Choose(g) == IF g.rc = "ok" THEN g ELSE GetRoundRobin(g.ps, g.x)
  IN Choose(IF hashed THEN Found(ByHash(table, x, conf.hash))
            ELSE [ps |-> table, x |-> x, rc |-> "rr"])

(* ngx_http_upstream_free_round_robin_peer() *)
Lowered(peer) ==
  Max({0, peer.current_weight
            - IF peer.max_fails = 0 THEN 0 ELSE peer.weight \div peer.max_fails})

FreePeer(table, x, state) ==
  IF state = "ok" /\ x.tries = 0 THEN [ps |-> table, x |-> x]
  ELSE IF Single(table) THEN [ps |-> table, x |-> [x EXCEPT !.tries = 0]]
  ELSE [ ps |-> IF state = "failed"
                THEN [table EXCEPT ![x.level][x.current] =
                        [@ EXCEPT !.fails = @ + 1, !.accessed = now,
                                  !.current_weight = Lowered(table[x.level][x.current])]]
                ELSE table,
         x  |-> [x EXCEPT !.current = IF @ >= Len(table[x.level]) THEN 1 ELSE @ + 1,
                          !.tries = IF @ > 0 THEN @ - 1 ELSE 0] ]
----------------------------------------------------------------------------
(* Requests *)

Free == running = "none"

Become(q, x) == req' = [req EXCEPT ![q] = x]

(* ngx_http_upstream_init_request(): peer.init() and the first connection *)
Start(q) ==
  /\ Free /\ req[q].phase = "idle"
  /\ Become(q, [NoRequest EXCEPT !.phase = "connect",
                                 !.tries = Len(peers[Table(q)][1])])
  /\ running' = q
  /\ mercy' = mercy \ {q}
  /\ peers' = IF conf.resolved = 0 THEN peers
              ELSE [peers EXCEPT ![q] = CreateRoundRobin(conf.resolved)]
  /\ UNCHANGED <<conf, now>>

(* ngx_http_upstream_finalize_request() *)
Finalize(q, x, table) ==
  \E f \in {FreePeer(table, x, "ok")} :
  /\ peers' = [peers EXCEPT ![Table(q)] = f.ps]
  /\ Become(q, [NoRequest EXCEPT !.phase = "done", !.attempts = x.attempts,
                    !.heads = x.heads, !.late = x.late, !.stuck = f.x.stuck])
  /\ running' = "none"

(* ngx_http_upstream_next() *)
NextPeer(q, x, table, ft) ==
  \E f \in {FreePeer(table, x, IF ft = "http_404" THEN "next" ELSE "failed")} :
  IF ~x.client \/ f.x.tries = 0 \/ ft \notin conf.next
  THEN Finalize(q, f.x, f.ps)
  ELSE /\ peers' = [peers EXCEPT ![Table(q)] = f.ps]
       /\ Become(q, [f.x EXCEPT !.phase = "connect", !.wtimer = FALSE])
       /\ running' = q

(* ngx_http_upstream_send_request(): rc is what ngx_output_chain() returns *)
SendRequest(q, x, rc) ==
  CASE rc = "error" -> NextPeer(q, x, peers[Table(q)], "error")
    [] rc = "again" -> /\ Become(q, [x EXCEPT !.phase = "sending", !.wtimer = TRUE])
                       /\ running' = "none" /\ UNCHANGED peers
    [] OTHER        -> /\ Become(q, [x EXCEPT !.phase = "waiting", !.wtimer = FALSE])
                       /\ running' = "none" /\ UNCHANGED peers

SendRcs == {"error", "again", "ok"}

(* ngx_http_upstream_connect() with ngx_event_connect_peer(): how is what
   connect() says; without a live peer the request is over *)
Connect(q, how) ==
  /\ running = q
  /\ \E g \in {Get(peers[Table(q)], req[q])} :
     \E x \in {[g.x EXCEPT !.attempts = IF @ < Alert THEN @ + 1 ELSE @]} :
        CASE g.rc = "busy"     -> how = "failed" /\ Finalize(q, g.x, g.ps)
          [] how = "failed"    -> Finalize(q, x, g.ps)
          [] how = "declined"  -> NextPeer(q, x, g.ps, "error")
          [] OTHER -> /\ peers' = [peers EXCEPT ![Table(q)] = g.ps]
                      /\ Become(q, [x EXCEPT !.phase = "connecting", !.wtimer = TRUE])
                      /\ running' = "none"
  /\ mercy' = IF \E l \in 1..2 : \E i \in DOMAIN peers["conf"][l] :
                  peers'["conf"][l][i].fails < peers["conf"][l][i].fails
              THEN {p \in Requests : req[p].phase # "idle"} ELSE mercy
  /\ UNCHANGED <<conf, now>>

Hows == {"failed", "declined", "again"}

(* ngx_http_upstream_send_request_handler() *)
WriteEvent(q, connected, rc) ==
  /\ Free /\ req[q].phase \in {"connecting", "sending"}
  /\ IF req[q].phase = "connecting" /\ ~connected
     THEN NextPeer(q, req[q], peers[Table(q)], "error")
     ELSE SendRequest(q, req[q], rc)
  /\ UNCHANGED <<conf, now, mercy>>

WriteTimeout(q) ==
  /\ Free /\ req[q].wtimer
  /\ NextPeer(q, req[q], peers[Table(q)], "timeout")
  /\ UNCHANGED <<conf, now, mercy>>

(* the socket takes more after the head of the response: nothing is sent, and
   the handler of the write event, its timer included, does nothing any more *)
WriteAfterHead(q) ==
  /\ Free /\ req[q].phase = "streaming" /\ req[q].wtimer
  /\ Become(q, [req[q] EXCEPT !.wtimer = FALSE])
  /\ UNCHANGED <<conf, peers, running, now, mercy>>

(* a mutant: the handlers of the events stay those of the header *)
SendsHeadWaiting(x) == [x EXCEPT !.heads = @ + 1, !.late = @ \/ x.wtimer]

(* ngx_http_upstream_process_header() with ngx_http_upstream_test_next():
   what is what was read *)
SendsHead(x) ==
  [x EXCEPT !.phase = "streaming", !.heads = @ + 1, !.late = @ \/ x.wtimer]

ReadEvent(q, what) ==
  /\ Free /\ req[q].phase \in {"connecting", "sending", "waiting"}
  /\ CASE what \in {"error", "timeout", "invalid_header"} ->
            /\ what = "timeout" => req[q].phase = "waiting"
            /\ NextPeer(q, req[q], peers[Table(q)], what)
       [] what = "fatal" -> Finalize(q, req[q], peers[Table(q)])
       [] what \in {"http_500", "http_404"} /\ req[q].tries > 1 /\ what \in conf.next ->
            NextPeer(q, req[q], peers[Table(q)], what)
       [] OTHER -> Become(q, SendsHead(req[q])) /\ UNCHANGED <<peers, running>>
  /\ UNCHANGED <<conf, now, mercy>>

Reads == Failures \cup {"fatal", "ok"}

(* the response, the upstream or the client is at its end *)
StreamEnds(q) ==
  /\ Free /\ req[q].phase = "streaming"
  /\ Finalize(q, req[q], peers[Table(q)])
  /\ UNCHANGED <<conf, now, mercy>>

(* ngx_http_upstream_check_broken_connection() *)
ClientGone(q) ==
  /\ Free /\ req[q].client
  /\ req[q].phase \in {"connecting", "sending", "waiting"}
  /\ IF conf.cacheable
     THEN Become(q, [req[q] EXCEPT !.client = FALSE]) /\ UNCHANGED <<peers, running>>
     ELSE Finalize(q, [req[q] EXCEPT !.client = FALSE], peers[Table(q)])
  /\ UNCHANGED <<conf, now, mercy>>

Tick ==
  /\ Free /\ now < MaxTime
  /\ now' = now + 1
  /\ UNCHANGED <<conf, peers, req, running, mercy>>

(* a new request in the place of one that is over *)
Again(q) ==
  /\ Free /\ req[q].phase = "done"
  /\ Become(q, NoRequest)
  /\ UNCHANGED <<conf, peers, running, now, mercy>>

Next ==
  \/ \E q \in Requests :
       \/ Start(q) \/ WriteTimeout(q) \/ WriteAfterHead(q)
       \/ StreamEnds(q) \/ ClientGone(q) \/ Again(q)
       \/ \E how \in Hows : Connect(q, how)
       \/ \E connected \in BOOLEAN, rc \in SendRcs : WriteEvent(q, connected, rc)
       \/ \E what \in Reads : ReadEvent(q, what)
  \/ Tick

Spec == Init /\ [][Next]_vars
----------------------------------------------------------------------------
(* Properties *)

Limited(table) == \A l \in 1..2 : \A i \in DOMAIN table[l] : table[l][i].max_fails > 0
MaxAttempts(table) ==
  FoldLeft(LAMBDA n, p : n + p.max_fails, 0, table[1]) + Len(table[2])

(* A request gives up: without backups after one attempt per peer, whatever
   the other requests do.  With backups it may meet a primary again until its
   failures are too many: then this needs max_fails > 0, and that the failures
   are not forgotten meanwhile. *)
AttemptsBounded ==
  \A q \in Requests :
    LET t == peers[Table(q)] IN
    IF t[2] = <<>> THEN req[q].attempts <= Len(t[1])
    ELSE Limited(t) /\ q \notin mercy => req[q].attempts <= MaxAttempts(t)

(* The data of a request fit the level it is on, and the loops never end on
   their guard while there is a peer to use. *)
ChoiceSane ==
  \A q \in Requests :
    LET t == peers[Table(q)] IN
    /\ req[q].phase \notin {"idle", "connect", "done"} =>
         /\ req[q].current \in DOMAIN t[req[q].level]
         /\ ~t[req[q].level][req[q].current].down \/ Single(t)
    /\ req[q].stuck => \A i \in DOMAIN t[1] : t[1][i].down

(* When a request finds no live upstream, the next one finds one. *)
NotLockedOutStep ==
  \A q \in Requests :
    /\ running = q /\ req'[q].phase = "done"
    /\ Get(peers[Table(q)], req[q]).rc = "busy"
    /\ \E i \in DOMAIN peers[Table(q)][1] : ~peers[Table(q)][1][i].down
    => Get(peers'[Table(q)], [NoRequest EXCEPT !.tries = Len(peers[Table(q)][1])]).rc
         = "ok"
NotLockedOut == [][NotLockedOutStep]_vars

(* A client gets one response: when its head was sent no other upstream is
   tried.  (A response that comes before the request is sent leaves the
   timer of the sending behind, which does try another: late.) *)
OneResponse ==
  \A q \in Requests : ~req[q].late =>
    /\ req[q].heads <= 1
    /\ req[q].heads = 1 => req[q].phase \in {"streaming", "done"}
==============================================================================
