----------------------------- MODULE HttpRequest -----------------------------
(***************************************************************************)
(* The life of an HTTP request on one client connection: phases, content,  *)
(* subrequests and the order of their output, redirects, upstreams, file   *)
(* AIO, the request body, finalizing, terminating, keepalive and lingering *)
(* close (http/ngx_http_request.c, ngx_http_core_module.c,                 *)
(* ngx_http_postpone_filter_module.c, ngx_http_request_body.c, and what    *)
(* ngx_http_upstream.c and ngx_http_copy_filter_module.c do to a request). *)
(*                                                                         *)
(* A worker runs one handler at a time, and a handler calls others.  The   *)
(* calls still to be made are the stack `todo`; the value of the last call *)
(* that returned is `ret`.  Network, timers, disk and upstreams act only   *)
(* when the stack is empty.  Failing allocations and failing epoll_ctl()   *)
(* are not modelled.                                                       *)
(***************************************************************************)
EXTENDS Integers, Sequences, FiniteSets, SequencesExt

CONSTANTS
  Confs,     \* the configurations and clients, see ConfType
  UriLimit,  \* NGX_HTTP_MAX_URI_CHANGES (10)
  UriMod     \* 2^4, uri_changes is a bit field of four bits

\* What a configuration allows, and the bounds that go with it: how many
\* requests there may be, how many pieces of output and subrequests each of
\* them may have, and which of the rest may happen.
ConfType ==
  [reqs : Nat \ {0}, doc : Nat,
   allow : SUBSET {"redirect", "refuse", "delay", "body", "expect", "aio",
                   "post_action", "early", "discard in subrequests"}]

ASSUME HttpAssumption ==
  /\ Confs \subseteq ConfType /\ UriLimit \in Nat /\ UriMod \in Nat
  /\ UriMod > UriLimit + 1

VARIABLES
  conf,    \* one of Confs
  conn,    \* ngx_connection_t of the client
  client,  \* has the client closed its side
  data,    \* c->data: the active request, 0 for the ngx_http_connection_t
  main,    \* the fields that only r->main has
  req,     \* the requests, 1 is the main one
  nreq,    \* how many of them exist
  sent,    \* history: what was passed to the write filter, in order
  alert,   \* history: "alert" messages logged
  todo,    \* the call stack
  ret      \* what the last call returned

vars == <<conf, conn, client, data, main, req, nreq, sent, alert, todo, ret>>

Allowed(x) == x \in conf.allow

\* A location may handle what is wrong with the header of a request; the
\* request has no write handler before its first phase.
MayRedirect == Allowed("early") \/ req[1].weh # "none"

Reqs == 1..conf.reqs
Main == 1

Request(p, weh, reh, discard) ==
  [parent |-> p, weh |-> weh, reh |-> reh, postponed |-> <<>>,
   uri_changes |-> UriLimit + 1, content_handler |-> TRUE, upstream |-> "no",
   aio |-> FALSE, held |-> <<>>, error_page |-> FALSE, post_action |-> FALSE,
   discard_body |-> discard, expect_tested |-> FALSE, logged |-> FALSE,
   doc |-> <<>>]

NoRequest == Request(0, "none", "none", FALSE)

\* ngx_http_init_request(): a connection whose request is being read.
FreshConn == [open |-> TRUE, error |-> FALSE, buffered |-> FALSE,
              wready |-> TRUE, eof |-> FALSE, rd |-> "headers", wr |-> "empty",
              rtimer |-> TRUE, wtimer |-> FALSE,
              rtimedout |-> FALSE, wtimedout |-> FALSE]
FreshMain == [count |-> 1, blocked |-> 0, posted |-> <<>>, cleanup |-> <<>>,
              body |-> "none", expect |-> FALSE, freed |-> FALSE,
              complete |-> FALSE, limited |-> FALSE,
              doomed |-> FALSE, leaked |-> FALSE, again |-> FALSE]
FreshReq  == [r \in Reqs |-> IF r = Main THEN Request(0, "none", "block", FALSE)
                             ELSE NoRequest]

Init ==
  /\ conf \in Confs
  /\ conn = FreshConn /\ client = "here" /\ data = Main /\ main = FreshMain
  /\ req = FreshReq /\ nreq = 1 /\ sent = <<>> /\ alert = {}
  /\ todo = <<>> /\ ret = "ok"

-----------------------------------------------------------------------------
(* The stack.                                                              *)

Call(op, r, arg) == [op |-> op, r |-> r, arg |-> arg, out |-> <<>>]
Pass(op, r, arg, out) == [op |-> op, r |-> r, arg |-> arg, out |-> out]
In(op)     == todo # <<>> /\ Head(todo).op = op
R          == Head(todo).r
Arg        == Head(todo).arg
Calls(s)   == todo' = s \o Tail(todo)
Return(rc) == todo' = Tail(todo) /\ ret' = rc

\* ngx_http_finalize_request(r, rc).  The rc is a value, "ret" for what the
\* call before returned, or "body" for what a handler makes of the value of
\* ngx_http_read_client_request_body().
Finalize(r, rc) == Call("finalize", r, rc)
Rc == CASE Arg = "ret" -> ret
        [] Arg = "body" -> IF ret = "special" THEN "special" ELSE "done"
        [] OTHER -> Arg

\* The write handler of a request, then the posted requests: the end of
\* ngx_http_request_handler() and of ngx_http_upstream_handler().
RunPosted == Call("run_posted", Main, "")
\* Mutant: the posted requests are not run.
EventAlone(s) == todo = <<>> /\ todo' = s
Event(s)  == todo = <<>> /\ todo' = s \o <<RunPosted>>

PostRequest(m, r) == [m EXCEPT !.posted = Append(@, r)]

-----------------------------------------------------------------------------
(* Phases and content.                                                     *)

Handler ==
  /\ In("ngx_http_handler")
  /\ req' = [req EXCEPT ![R].weh = "phases"]
  /\ Calls(<<Call("phases", R, "")>>)
  /\ UNCHANGED <<conf, conn, client, data, main, nreq, sent, alert, ret>>

\* The phases before content pass, or one of them ends the request
PhasesPass ==
  /\ In("phases")
  /\ Calls(<<Call("content", R, "")>>)
  /\ UNCHANGED <<conf, conn, client, data, main, req, nreq, sent, alert, ret>>

PhasesRefuse ==
  /\ In("phases") /\ Allowed("refuse")
  /\ \E rc \in {"special", "close"} : Calls(<<Finalize(R, rc)>>)
  /\ UNCHANGED <<conf, conn, client, data, main, req, nreq, sent, alert, ret>>

\* ngx_http_send_response() of a "return" in a subrequest, with nothing to send
PhasesReturn ==
  /\ In("phases") /\ R # Main
  /\ Calls(<<Finalize(R, "ok")>>)
  /\ UNCHANGED <<conf, conn, client, data, main, req, nreq, sent, alert, ret>>

\* ngx_http_core_find_config_phase(): the body is too large.
PhasesTooLarge ==
  /\ In("phases") /\ main.body = "unread" /\ ~req[R].discard_body
  /\ Calls(<<Call("discard", R, ""), Finalize(R, "special")>>)
  /\ UNCHANGED <<conf, conn, client, data, main, req, nreq, sent, alert, ret>>

\* ngx_http_limit_req_handler(): the request waits for its turn.
PhasesDelay ==
  /\ In("phases") /\ Allowed("delay") /\ ~main.limited /\ R = Main
  /\ main' = [main EXCEPT !.limited = TRUE]
  /\ req' = [req EXCEPT ![R].weh = "delay", ![R].reh = "test_reading"]
  /\ conn' = [conn EXCEPT !.wtimer = TRUE]
  /\ Calls(<<>>)
  /\ UNCHANGED <<conf, client, data, nreq, sent, alert, ret>>

UriChange(r) == (req[r].uri_changes - 1) % UriMod

\* ngx_http_core_post_rewrite_phase(): the uri was rewritten.
PhasesRewrite ==
  /\ In("phases") /\ Allowed("redirect")
  /\ req' = [req EXCEPT ![R].uri_changes = UriChange(R)]
  /\ Calls(<<IF UriChange(R) = 0 THEN Finalize(R, "special")
                                 ELSE Call("phases", R, "")>>)
  /\ UNCHANGED <<conf, conn, client, data, main, nreq, sent, alert, ret>>

\* What the handlers of the content phase may do: refuse, produce output, or
\* redirect.  The content handler of a location may also read the body and go
\* to an upstream, or leave the request to the handlers of the phase.
Contents(r) ==
  { <<Call("discard", r, ""), Call("produce", r, ""), Finalize(r, "ret")>> }
  \cup (IF Allowed("refuse") THEN { <<Finalize(r, "special")>> } ELSE {})
  \cup (IF Allowed("redirect")
        THEN { <<Call("redirect", r, ""), Finalize(r, "done")>> } ELSE {})
  \cup (IF req[r].content_handler
        THEN { <<Call("read_body", r, ""), Finalize(r, "body")>>,
               <<Finalize(r, "declined")>> }
        ELSE {})

ContentPhase ==
  /\ In("content")
  /\ req' = [req EXCEPT ![R].weh =
               IF req[R].content_handler THEN "empty" ELSE @]
  /\ \E s \in Contents(R) : Calls(s)
  /\ UNCHANGED <<conf, conn, client, data, main, nreq, sent, alert, ret>>

\* ngx_http_internal_redirect() and ngx_http_named_location()
InternalRedirect ==
  /\ In("redirect")
  /\ req' = [req EXCEPT ![R].uri_changes = UriChange(R),
                        ![R].content_handler = TRUE]
  /\ main' = [main EXCEPT !.count = @ + 1]
  /\ Calls(<<IF UriChange(R) = 0 THEN Finalize(R, "special")
                                 ELSE Call("ngx_http_handler", R, "")>>)
  /\ UNCHANGED <<conf, conn, client, data, nreq, sent, alert, ret>>

\* ngx_http_subrequest().  The filters that start subrequests come after the
\* copy filter: nothing of the request is held back there.
MayStartSubrequest(r) ==
  /\ req[r].held = <<>> /\ nreq < conf.reqs /\ Len(req[r].doc) < conf.doc
  /\ Allowed("discard in subrequests") \/ (~req[Main].discard_body /\ ~req[r].discard_body)

\* Mutant: a later subrequest overtakes the ones before it.
SubrequestOvertakes(r) ==
  LET sr == nreq + 1 IN
  /\ MayStartSubrequest(r)
  /\ nreq' = sr
  /\ req' = [req EXCEPT
       ![sr] = Request(r, "ngx_http_handler", "empty", req[r].discard_body),
       ![r].postponed = Append(@, [request |-> sr, out |-> <<>>]),
       ![r].doc = Append(@, sr)]
  /\ data' = IF data = r \/ req[data].parent = r THEN sr ELSE data
  /\ main' = PostRequest([main EXCEPT !.count = @ + 1], sr)

Subrequest(r) ==
  LET sr == nreq + 1 IN
  /\ MayStartSubrequest(r)
  /\ nreq' = sr
  /\ req' = [req EXCEPT
       ![sr] = Request(r, "ngx_http_handler", "empty", req[r].discard_body),
       ![r].postponed = Append(@, [request |-> sr, out |-> <<>>]),
       ![r].doc = Append(@, sr)]
  /\ data' = IF data = r /\ req[r].postponed = <<>> THEN sr ELSE data
  /\ main' = PostRequest([main EXCEPT !.count = @ + 1], sr)

\* A handler or filter that produces output for R: pieces and subrequests,
\* unless the body could not be discarded or the output failed.
Producing == ret \notin {"error", "special"}

ProducePiece ==
  /\ In("produce") /\ Producing /\ Len(req[R].doc) < conf.doc
  /\ Calls(<<Call("output", R, "piece"), Call("produce", R, "")>>)
  /\ UNCHANGED <<conf, conn, client, data, main, req, nreq, sent, alert, ret>>

ProduceSubrequest ==
  /\ In("produce") /\ Producing /\ Subrequest(R)
  /\ UNCHANGED <<conf, conn, client, sent, alert, todo, ret>>

\* Every response ends with a buffer that says so
ProduceEnd ==
  /\ In("produce")
  /\ Calls(IF Producing THEN <<Call("output", R, "last")>> ELSE <<>>)
  /\ UNCHANGED <<conf, conn, client, data, main, req, nreq, sent, alert, ret>>

-----------------------------------------------------------------------------
(* Output: the copy filter, the postpone filter, the write filter.         *)

\* The piece that is output now, named by its place in the document.  The
\* request of a post_action is header_only.
Piece == IF Arg = "piece" /\ ~req[R].post_action /\ Len(req[R].doc) < conf.doc
         THEN << <<R, Len(req[R].doc) + 1>> >> ELSE <<>>
Documented == IF Piece = <<>> THEN req[R].doc ELSE Append(req[R].doc, 0)

\* ngx_http_copy_aio_handler(): the piece has to be read from the disk first.
CopyFilterAio ==
  /\ In("output") /\ Allowed("aio") /\ ~req[R].aio /\ req[R].held = <<>> /\ Piece # <<>>
  /\ req' = [req EXCEPT ![R].aio = TRUE, ![R].held = Piece,
                        ![R].doc = Documented]
  /\ main' = [main EXCEPT !.blocked = @ + 1]
  /\ Return("again")
  /\ UNCHANGED <<conf, conn, client, data, nreq, sent, alert>>

CopyFilterBusy ==
  /\ In("output") /\ req[R].aio
  /\ req' = [req EXCEPT ![R].held = @ \o Piece, ![R].doc = Documented]
  /\ Return("again")
  /\ UNCHANGED <<conf, conn, client, data, main, nreq, sent, alert>>

CopyFilterPass ==
  /\ In("output") /\ ~req[R].aio
  /\ req' = [req EXCEPT ![R].held = <<>>, ![R].doc = Documented]
  /\ Calls(<<Pass("postpone", R, Arg, req[R].held \o Piece)>>)
  /\ UNCHANGED <<conf, conn, client, data, main, nreq, sent, alert, ret>>

\* ngx_http_postpone_filter_add()
PostponeAdd(p, out) ==
  IF p # <<>> /\ Last(p).request = 0
  THEN [p EXCEPT ![Len(p)].out = @ \o out]
  ELSE Append(p, [request |-> 0, out |-> out])

PostponeFilter ==
  LET out  == Head(todo).out
      some == Arg # "null" \/ out # <<>>   \* in != NULL
      p    == req[R].postponed
  IN
  /\ In("postpone")
  /\ IF data # R \/ p # <<>>
     THEN req' = [req EXCEPT ![R].postponed =
                    IF some THEN PostponeAdd(p, out) ELSE p]
     ELSE req' = req
  /\ CASE data # R -> Return("ok")
       [] data = R /\ p # <<>> -> Calls(<<Call("drain", R, "")>>) /\ ret' = ret
       [] data = R /\ p = <<>> /\ (some \/ conn.buffered) ->
            Calls(<<Pass("write", Main, "", out)>>) /\ ret' = ret
       [] OTHER -> Return("ok")
  /\ UNCHANGED <<conf, conn, client, data, main, nreq, sent, alert>>

\* The loop of ngx_http_postpone_filter(): the next postponed element is a
\* subrequest, which becomes the active request,
PostponeWake ==
  LET p == req[R].postponed IN
  /\ In("drain") /\ Head(p).request # 0
  /\ req' = [req EXCEPT ![R].postponed = Tail(p)]
  /\ data' = Head(p).request
  /\ main' = PostRequest(main, Head(p).request)
  /\ Return("ok")
  /\ UNCHANGED <<conf, conn, client, nreq, sent, alert>>

\* ... or output.
PostponeOutput ==
  LET p == req[R].postponed IN
  /\ In("drain") /\ Head(p).request = 0
  /\ Calls(<<Pass("write", Main, "", Head(p).out), Call("drained", R, "")>>)
  /\ UNCHANGED <<conf, conn, client, data, main, req, nreq, sent, alert, ret>>

PostponeNext ==
  LET p == Tail(req[R].postponed) IN
  /\ In("drained")
  /\ IF ret = "error"
     THEN Return("error") /\ req' = req
     ELSE /\ req' = [req EXCEPT ![R].postponed = p]
          /\ IF p = <<>> THEN Return("ok")
             ELSE Calls(<<Call("drain", R, "")>>) /\ ret' = ret
  /\ UNCHANGED <<conf, conn, client, data, main, nreq, sent, alert>>

\* ngx_http_write_filter(): the socket takes everything or not; writing to a
\* client that has gone may fail.
WriteFilter ==
  LET out == Head(todo).out IN
  /\ In("write") /\ ~conn.error
  /\ sent' = sent \o out
  /\ \E b \in IF ~conn.wready THEN {TRUE}
              ELSE IF out = <<>> THEN {FALSE} ELSE BOOLEAN :
       /\ conn' = [conn EXCEPT !.buffered = b, !.wready = ~b]
       /\ Return(IF b THEN "again" ELSE "ok")
  /\ UNCHANGED <<conf, client, data, main, req, nreq, alert>>

WriteFilterFails ==
  /\ In("write") /\ (conn.error \/ client = "gone")
  /\ conn' = [conn EXCEPT !.error = TRUE]
  /\ Return("error")
  /\ UNCHANGED <<conf, client, data, main, req, nreq, sent, alert>>

-----------------------------------------------------------------------------
(* The request body.                                                       *)

\* ngx_http_test_expect(): "100 Continue" is sent once per request, in one
\* piece or not at all.
Expects(r)    == main.expect /\ ~req[r].expect_tested
Tested(r)     == [req EXCEPT ![r].expect_tested = main.expect]
NotContinued  == [conn EXCEPT !.wready = @ /\ client = "gone"]

\* ngx_http_discard_request_body() of a body that is not here yet.  All of it
\* came with the header, or is read now; the client has gone, and the handler
\* stays with nothing to count for it; or the rest is discarded as it arrives
\* and the request has one more reference.
DiscardRest(q, c) ==
  \/ /\ main' = [main EXCEPT !.body = "none"]
     /\ \E h \in {req[R].reh, "block"} : req' = [q EXCEPT ![R].reh = h]
     /\ conn' = c
  \/ /\ client = "gone"
     /\ req' = [q EXCEPT ![R].reh = "discard"]
     /\ \E f \in {"eof", "error"} : conn' = [c EXCEPT ![f] = TRUE]
     /\ main' = main
  \/ /\ main' = [main EXCEPT !.count = @ + 1]
     /\ req' = [q EXCEPT ![R].reh = "discard", ![R].discard_body = TRUE]
     /\ conn' = c

DiscardBody ==
  /\ In("discard")
  /\ IF R # Main \/ req[R].discard_body
     THEN UNCHANGED <<conn, main, req>>
     ELSE LET c == [conn EXCEPT !.rtimer = FALSE] IN
          IF main.body = "unread" THEN DiscardRest(Tested(R), c)
          ELSE conn' = c /\ req' = Tested(R) /\ main' = main
  /\ Return("ok")
  /\ UNCHANGED <<conf, client, data, nreq, sent, alert>>

DiscardNotContinued ==
  /\ In("discard") /\ R = Main /\ ~req[R].discard_body /\ Expects(R)
  /\ req' = Tested(R) /\ conn' = NotContinued
  /\ Return("special")
  /\ UNCHANGED <<conf, client, data, main, nreq, sent, alert>>

\* ngx_http_read_client_request_body(), with ngx_http_upstream_init() as the
\* handler to call when the body is there
MustRead(r) == main.body # "read" /\ ~req[r].discard_body

ReadBody ==
  LET unread == main.body = "unread" /\ MustRead(R)
      q == IF MustRead(R) THEN Tested(R) ELSE req
  IN
  /\ In("read_body")
  /\ main' = [main EXCEPT !.count = @ + 1, !.body = IF unread THEN "read" ELSE @]
  /\ \/ /\ Calls(<<Call("upstream_init", R, "")>>)
        /\ req' = q /\ UNCHANGED <<conn, ret>>
     \/ /\ unread
        /\ conn' = [conn EXCEPT !.rtimer = TRUE]
        /\ req' = [q EXCEPT ![R].reh = "read_body"]
        /\ Return("again")
  /\ UNCHANGED <<conf, client, data, nreq, sent, alert>>

\* ... which failed: the client cannot be told to continue, or the temporary
\* file cannot be written.  The reference was taken already, and nobody
\* returns it (`leaked` remembers that).
ReadBodyFails ==
  /\ In("read_body") /\ MustRead(R)
  /\ \/ /\ Expects(R) /\ conn' = NotContinued
        /\ main' = [main EXCEPT !.count = @ + 1, !.leaked = TRUE]
     \/ /\ main.body = "unread" /\ conn' = conn
        /\ main' = [main EXCEPT !.count = @ + 1, !.leaked = TRUE,
                                !.body = "read"]
  /\ req' = Tested(R)
  /\ Return("special")
  /\ UNCHANGED <<conf, client, data, nreq, sent, alert>>

\* ngx_http_read_client_request_body_handler()
ReadBodyHandler ==
  /\ In("reh") /\ req[R].reh = "read_body"
  /\ IF conn.rtimedout
     THEN Calls(<<Finalize(R, "timeout")>>) /\ UNCHANGED <<conn, req>>
     ELSE \/ /\ conn' = [conn EXCEPT !.rtimer = TRUE]
             /\ Calls(<<>>) /\ req' = req
          \/ /\ conn' = [conn EXCEPT !.rtimer = FALSE]
             /\ req' = [req EXCEPT ![R].reh = "block"]
             /\ Calls(<<Call("upstream_init", R, "")>>)
          \/ /\ client = "gone" /\ conn' = [conn EXCEPT !.error = TRUE]
             /\ Calls(<<Finalize(R, "special")>>) /\ req' = req
  /\ UNCHANGED <<conf, client, data, main, nreq, sent, alert, ret>>

\* The end of the discarding is finalized, maybe for the second time (`again`
\* remembers that).
EndDiscarded == [main EXCEPT !.again = @ \/ ~req[R].discard_body]

\* ngx_http_discarded_request_body_handler().  A lingering_time is set when
\* the timer is.  When the client has gone the handler stays in place.
DiscardedBodyHandler ==
  /\ In("reh") /\ req[R].reh = "discard"
  /\ IF conn.rtimedout
     THEN /\ conn' = [conn EXCEPT !.error = TRUE]
          /\ main' = EndDiscarded /\ req' = req
          /\ Calls(<<Finalize(R, "error")>>)
     ELSE \/ /\ conn.rtimer   \* lingering_time is over
             /\ req' = [req EXCEPT ![R].discard_body = FALSE]
             /\ main' = EndDiscarded /\ conn' = conn
             /\ Calls(<<Finalize(R, "error")>>)
          \/ /\ ~conn.eof     \* the last of the body
             /\ req' = [req EXCEPT ![R].discard_body = FALSE,
                                   ![R].reh = "block"]
             /\ main' = [EndDiscarded EXCEPT !.body = "none"] /\ conn' = conn
             /\ Calls(<<Finalize(R, "done")>>)
          \/ /\ client = "gone"
             /\ req' = [req EXCEPT ![R].discard_body = FALSE]
             /\ main' = EndDiscarded
             /\ \E f \in {"eof", "error"} : conn' = [conn EXCEPT ![f] = TRUE]
             /\ Calls(<<Finalize(R, "done")>>)
          \/ Calls(<<>>) /\ UNCHANGED <<conn, main, req>>
  /\ UNCHANGED <<conf, client, data, nreq, sent, alert, ret>>

-----------------------------------------------------------------------------
(* Upstreams, as far as the request sees them.                             *)

\* ngx_http_upstream_init(): the client is watched unless client aborts are
\* ignored.
UpstreamInit ==
  /\ In("upstream_init")
  /\ conn' = [conn EXCEPT !.rtimer = FALSE]
  /\ main' = [main EXCEPT !.cleanup = <<R>> \o @]
  /\ \/ /\ ~req[R].post_action
        /\ req' = [req EXCEPT ![R].upstream = "waiting",
                     ![R].weh = "check_broken", ![R].reh = "check_broken"]
     \/ req' = [req EXCEPT ![R].upstream = "waiting"]
  /\ Return("ok")
  /\ UNCHANGED <<conf, client, data, nreq, sent, alert>>

\* ngx_http_upstream_finalize_request()
UpstreamRc(r, rc) ==
  IF req[r].upstream = "sending" /\ rc \in {"error", "special", "closed"}
  THEN "ok" ELSE rc

UpstreamFinalize ==
  LET rc == UpstreamRc(R, Arg) IN
  /\ In("upstream_finalize")
  /\ req' = [req EXCEPT ![R].upstream = "no"]
  /\ main' = [main EXCEPT !.cleanup = SelectSeq(@, LAMBDA x : x # R)]
  /\ Calls(IF rc = "ok"
           THEN <<Call("output", R, "last"), Finalize(R, "ret")>>
           ELSE <<Finalize(R, rc)>>)
  /\ UNCHANGED <<conf, conn, client, data, nreq, sent, alert, ret>>

\* ngx_http_upstream_check_broken_connection(): a cacheable response is
\* fetched to its end
CheckBroken ==
  /\ \/ In("weh") /\ req[R].weh = "check_broken"
     \/ In("reh") /\ req[R].reh = "check_broken"
  /\ LET gone == In("reh") /\ client = "gone" IN
     /\ conn' = [conn EXCEPT !.error = @ \/ gone, !.eof = @ \/ gone]
     /\ \/ Calls(<<>>)
        \/ /\ conn.error \/ gone
           /\ Calls(<<Call("upstream_finalize", R, "closed")>>)
  /\ UNCHANGED <<conf, client, data, main, req, nreq, sent, alert, ret>>

\* The upstream sends a piece of its response, or a filter finds in it that a
\* subrequest is due
UpstreamSends(r) ==
  /\ req[r].upstream # "no" /\ Len(req[r].doc) < conf.doc
  /\ Event(<<Call("output", r, "piece"), Call("downstream", r, "")>>)
  /\ req' = [req EXCEPT ![r].upstream = "sending", ![r].weh = "downstream"]
  /\ UNCHANGED <<conf, conn, client, data, main, nreq, sent, alert, ret>>

UpstreamIncludes(r) ==
  /\ req[r].upstream = "sending" /\ req[r].weh = "downstream"
  /\ Subrequest(r) /\ Event(<<>>)
  /\ UNCHANGED <<conf, conn, client, sent, alert, ret>>

\* The upstream has finished, failed or timed out.
UpstreamEnds(r) ==
  /\ req[r].upstream # "no"
  /\ \E rc \in {"ok", "special"} :
       Event(<<Call("upstream_finalize", r, rc)>>)
  /\ UNCHANGED <<conf, conn, client, data, main, req, nreq, sent, alert, ret>>

\* ngx_http_upstream_process_downstream(), with ngx_event_pipe()
DownstreamHandler ==
  /\ In("weh") /\ req[R].weh = "downstream"
  /\ Calls(IF conn.wtimedout THEN <<Call("upstream_finalize", R, "ok")>>
           ELSE <<Call("output", R, "null"), Call("downstream", R, "")>>)
  /\ UNCHANGED <<conf, conn, client, data, main, req, nreq, sent, alert, ret>>

DownstreamFlushed ==
  /\ In("downstream")
  /\ IF ret = "error"
     THEN Calls(<<Call("upstream_finalize", R, "ok")>>) /\ conn' = conn
     ELSE /\ Calls(<<>>)
          /\ conn' = [conn EXCEPT !.wtimer =
                        IF data = R THEN conn.buffered ELSE @]
  /\ UNCHANGED <<conf, client, data, main, req, nreq, sent, alert, ret>>

-----------------------------------------------------------------------------
(* Finalizing.                                                             *)

Broken(rc) == rc \in {"error", "timeout", "closed"} \/ conn.error

FinalizeDeclined ==
  /\ In("finalize") /\ Rc = "declined"
  /\ req' = [req EXCEPT ![R].content_handler = FALSE, ![R].weh = "phases"]
  /\ Calls(<<Call("content", R, "")>>)
  /\ UNCHANGED <<conf, conn, client, data, main, nreq, sent, alert, ret>>

Ended == In("finalize") /\ Rc \notin {"done", "declined"}

FinalizeBroken ==
  /\ Ended /\ Broken(Rc)
  /\ req' = [req EXCEPT ![R].weh = IF main.blocked > 0 THEN "finalizer" ELSE @]
  /\ Calls(<<Call("terminate", R, "")>>)
  /\ UNCHANGED <<conf, conn, client, data, main, nreq, sent, alert, ret>>

FinalizeClose ==
  /\ Ended /\ ~Broken(Rc) /\ Rc = "close"
  /\ Calls(<<Call("terminate", R, "")>>)
  /\ UNCHANGED <<conf, conn, client, data, main, req, nreq, sent, alert, ret>>

FinalizeSpecial ==
  /\ Ended /\ ~Broken(Rc) /\ Rc = "special"
  /\ conn' = [conn EXCEPT !.rd = "request", !.wr = "request",
                          !.rtimer = @ /\ R # Main, !.wtimer = @ /\ R # Main]
  /\ Calls(<<Call("special_response", R, "")>>)
  /\ UNCHANGED <<conf, client, data, main, req, nreq, sent, alert, ret>>

\* ngx_http_special_response_handler(): an error_page, or a page of its own
ErrorPage ==
  /\ In("special_response") /\ Allowed("redirect") /\ MayRedirect
  /\ ~req[R].error_page
  /\ req[R].uri_changes # 0
  /\ \E recursive \in BOOLEAN : req' = [req EXCEPT ![R].error_page = ~recursive]
  /\ Calls(<<Call("redirect", R, ""), Finalize(R, "done")>>)
  /\ UNCHANGED <<conf, conn, client, data, main, nreq, sent, alert, ret>>

SpecialResponse ==
  /\ In("special_response")
  /\ Calls(<<Call("discard", R, ""), Call("output", R, "piece"),
             Finalize(R, "ret")>>)
  /\ UNCHANGED <<conf, conn, client, data, main, req, nreq, sent, alert, ret>>

Normal == Ended /\ ~Broken(Rc) /\ Rc \in {"ok", "again"}

\* Output of the request is still on the way; the main request also waits for
\* the connection and for file AIO
Unfinished(r) ==
  \/ req[r].held # <<>> \/ req[r].postponed # <<>>
  \/ r = Main /\ (conn.buffered \/ main.blocked > 0)

\* ngx_http_set_write_handler()
FinalizeWait ==
  /\ Normal /\ Unfinished(R)
  /\ req' = [req EXCEPT ![R].weh = "writer",
       ![R].reh = IF req[R].discard_body THEN "discard" ELSE "test_reading"]
  /\ conn' = [conn EXCEPT !.wtimer = TRUE]
  /\ Calls(<<>>)
  /\ UNCHANGED <<conf, client, data, main, nreq, sent, alert, ret>>

\* Mutant: a subrequest that ends keeps its reference.
FinalizeActiveKeepsCount ==
  LET p  == req[R].parent
      pp == req[p].postponed
  IN
  /\ Normal /\ ~Unfinished(R) /\ R # Main /\ data = R
  /\ main' = PostRequest(main, p)
  /\ alert' = alert \cup (IF req[R].logged THEN {"logged again"} ELSE {})
  /\ req' = [req EXCEPT ![R].logged = TRUE,
       ![p].postponed = IF pp # <<>> /\ Head(pp).request = R
                        THEN Tail(pp) ELSE pp]
  /\ data' = p
  /\ Calls(<<>>)
  /\ UNCHANGED <<conf, conn, client, nreq, sent, ret>>

\* A subrequest that is the active request ends and wakes its parent.
FinalizeActiveSubrequest ==
  LET p  == req[R].parent
      pp == req[p].postponed
  IN
  /\ Normal /\ ~Unfinished(R) /\ R # Main /\ data = R
  /\ main' = PostRequest([main EXCEPT !.count = @ - 1], p)
  /\ alert' = alert \cup (IF req[R].logged THEN {"logged again"} ELSE {})
  /\ req' = [req EXCEPT ![R].logged = TRUE,
       ![p].postponed = IF pp # <<>> /\ Head(pp).request = R
                        THEN Tail(pp) ELSE pp]
  /\ data' = p
  /\ Calls(<<>>)
  /\ UNCHANGED <<conf, conn, client, nreq, sent, ret>>

\* ... one that is not has to be finalized again when it is.
FinalizeInactiveSubrequest ==
  /\ Normal /\ ~Unfinished(R) /\ R # Main /\ data # R
  /\ req' = [req EXCEPT ![R].weh = "finalizer"]
  /\ main' = PostRequest(main, req[R].parent)
  /\ Calls(<<>>)
  /\ UNCHANGED <<conf, conn, client, data, nreq, sent, alert, ret>>

FinalizeMain ==
  /\ Normal /\ ~Unfinished(R) /\ R = Main
  /\ IF data # R
     THEN /\ alert' = alert \cup {"finalize non-active request"}
          /\ Calls(<<>>) /\ UNCHANGED <<conn, main, req>>
     ELSE /\ req' = [req EXCEPT ![R].weh = "empty"]
          /\ main' = [main EXCEPT !.complete = @ \/ ~req[R].post_action]
          /\ conn' = [conn EXCEPT !.rtimer = FALSE, !.wtimer = FALSE]
          /\ Calls(<<Call(IF conn.eof THEN "close" ELSE "finalize_connection",
                          R, "")>>)
          /\ alert' = alert
  /\ UNCHANGED <<conf, client, data, nreq, sent, ret>>

\* ngx_http_post_action(), which the code tries before it terminates a broken
\* request and before it ends a complete one.
PostActionRuns ==
  /\ Allowed("post_action") /\ MayRedirect
  /\ \/ Ended /\ Broken(Rc)
     \/ Normal /\ ~Unfinished(R) /\ R = Main /\ data = R
  /\ ~(req[R].post_action /\ req[R].uri_changes = 0)
  /\ main' = [main EXCEPT !.count = @ - 1,
                !.complete = @ \/ (~Broken(Rc) /\ ~req[R].post_action)]
  /\ req' = [req EXCEPT ![R].post_action = TRUE, ![R].reh = "block",
               ![R].weh = IF Broken(Rc) THEN @ ELSE "empty"]
  /\ Calls(<<Call("redirect", R, "")>>)
  /\ UNCHANGED <<conf, conn, client, data, nreq, sent, alert, ret>>

\* ngx_http_terminate_request(): the cleanup handlers, which finalize the
\* upstreams with NGX_DONE, then the last posted request.  While file AIO runs
\* for the request it is only left alone (`doomed` remembers that it was).
TerminateRequest ==
  /\ In("terminate")
  /\ Calls([i \in 1..Len(main.cleanup) |->
              Call("upstream_finalize", main.cleanup[i], "done")]
           \o <<Call("terminated", R, "")>>)
  /\ main' = [main EXCEPT !.cleanup = <<>>]
  /\ UNCHANGED <<conf, conn, client, data, req, nreq, sent, alert, ret>>

Terminated ==
  /\ In("terminated")
  /\ IF req[Main].weh = "none"
     THEN Calls(<<Call("close", Main, "")>>) /\ UNCHANGED <<main, req>>
     ELSE /\ Calls(<<>>)
          /\ IF main.blocked > 0
             THEN main' = [main EXCEPT !.doomed = TRUE] /\ req' = req
             ELSE /\ main' = [main EXCEPT !.posted = <<Main>>]
                  /\ req' = [req EXCEPT ![Main].weh = "terminate_handler"]
  /\ UNCHANGED <<conf, conn, client, data, nreq, sent, alert, ret>>

EndsConnection == \/ In("finalize_connection")
                  \/ In("finalize") /\ Rc = "done"

\* ngx_http_finalize_connection(): others still use the request,
FinalizeConnectionShared ==
  /\ EndsConnection /\ main.count # 1
  /\ IF req[R].discard_body
     THEN /\ req' = [req EXCEPT ![R].reh = "discard"]
          /\ conn' = [conn EXCEPT !.rtimer = TRUE]
     ELSE UNCHANGED <<req, conn>>
  /\ Calls(<<Call("close", R, "")>>)
  /\ UNCHANGED <<conf, client, data, main, nreq, sent, alert, ret>>

\* ... it is kept alive, ngx_http_set_keepalive(),
SetKeepalive ==
  /\ EndsConnection /\ main.count = 1
  /\ IF req[R].discard_body
     THEN /\ req' = [req EXCEPT ![R].weh = "empty"]
          /\ conn' = [conn EXCEPT !.rtimer = TRUE]
          /\ Calls(<<>>)
     ELSE /\ Calls(<<Call("free", R, ""), Call("keepalive", R, "")>>)
          /\ UNCHANGED <<req, conn>>
  /\ UNCHANGED <<conf, client, data, main, nreq, sent, alert, ret>>

KeepaliveSet ==
  /\ In("keepalive")
  /\ data' = 0
  /\ conn' = [conn EXCEPT !.rtimer = TRUE, !.rd = "keepalive", !.wr = "empty"]
  /\ Calls(<<>>)
  /\ UNCHANGED <<conf, client, main, req, nreq, sent, alert, ret>>

\* ... closed slowly, ngx_http_set_lingering_close(), or closed.
SetLingeringClose ==
  /\ EndsConnection /\ main.count = 1
  /\ conn' = [conn EXCEPT !.rtimer = TRUE, !.rd = "lingering", !.wr = "empty"]
  /\ Calls(<<>>)
  /\ UNCHANGED <<conf, client, data, main, req, nreq, sent, alert, ret>>

FinalizeConnectionClose ==
  /\ EndsConnection /\ main.count = 1
  /\ Calls(<<Call("close", R, "")>>)
  /\ UNCHANGED <<conf, conn, client, data, main, req, nreq, sent, alert, ret>>

\* ngx_http_close_request()
CloseRequest ==
  /\ In("close")
  /\ alert' = alert \cup (IF main.count = 0 THEN {"count is zero"} ELSE {})
  /\ main' = [main EXCEPT !.count = @ - 1]
  /\ Calls(IF main.count # 1 \/ main.blocked > 0 THEN <<>>
           ELSE <<Call("free", Main, ""), Call("close_connection", Main, "")>>)
  /\ UNCHANGED <<conf, conn, client, data, req, nreq, sent, ret>>

\* ngx_http_free_request() runs the cleanup handlers that are left
FreeRequest ==
  /\ In("free")
  /\ Calls([i \in 1..Len(main.cleanup) |->
              Call("upstream_finalize", main.cleanup[i], "done")]
           \o <<Call("freed", R, "")>>)
  /\ UNCHANGED <<conf, conn, client, data, main, req, nreq, sent, alert, ret>>

RequestFreed ==
  /\ In("freed")
  /\ main' = [main EXCEPT !.freed = TRUE]
  /\ Calls(<<>>)
  /\ UNCHANGED <<conf, conn, client, data, req, nreq, sent, alert, ret>>

CloseConnection ==
  /\ In("close_connection")
  /\ conn' = [conn EXCEPT !.open = FALSE, !.rtimer = FALSE, !.wtimer = FALSE]
  /\ data' = 0
  /\ Calls(<<>>)
  /\ UNCHANGED <<conf, client, main, req, nreq, sent, alert, ret>>

-----------------------------------------------------------------------------
(* Handlers that events and posted requests run.                           *)

\* ngx_http_run_posted_requests()
RunPostedRequests ==
  /\ In("run_posted")
  /\ IF main.freed \/ main.posted = <<>>
     THEN Return("ok") /\ main' = main
     ELSE /\ Calls(<<Call("weh", Head(main.posted), ""), RunPosted>>)
          /\ main' = [main EXCEPT !.posted = Tail(@)] /\ ret' = ret
  /\ UNCHANGED <<conf, conn, client, data, req, nreq, sent, alert>>

\* r->write_event_handler(r)
RunWriteHandler ==
  /\ In("weh")
  /\ req[R].weh \in {"ngx_http_handler", "phases", "empty", "finalizer"}
  /\ Calls(CASE req[R].weh \in {"ngx_http_handler", "phases"} ->
                  <<Call(req[R].weh, R, "")>>
             [] req[R].weh = "finalizer" -> <<Finalize(R, "ok")>>
             [] OTHER -> <<>>)
  /\ UNCHANGED <<conf, conn, client, data, main, req, nreq, sent, alert, ret>>

\* ngx_http_limit_req_delay()
DelayHandler ==
  /\ In("weh") /\ req[R].weh = "delay"
  /\ IF conn.wtimedout
     THEN /\ conn' = [conn EXCEPT !.wtimedout = FALSE]
          /\ req' = [req EXCEPT ![R].weh = "phases", ![R].reh = "block"]
          /\ Calls(<<Call("phases", R, "")>>)
     ELSE Calls(<<>>) /\ UNCHANGED <<conn, req>>
  /\ UNCHANGED <<conf, client, data, main, nreq, sent, alert, ret>>

TerminateHandler ==
  /\ In("weh") /\ req[R].weh = "terminate_handler"
  /\ main' = [main EXCEPT !.count = 1]
  /\ Calls(<<Call("close", R, "")>>)
  /\ UNCHANGED <<conf, conn, client, data, req, nreq, sent, alert, ret>>

\* ngx_http_writer()
Writer ==
  /\ In("weh") /\ req[R].weh = "writer"
  /\ Calls(CASE conn.wtimedout -> <<Finalize(R, "timeout")>>
             [] ~conn.wtimedout /\ req[R].aio -> <<>>
             [] OTHER -> <<Call("output", R, "null"), Call("written", R, "")>>)
  /\ UNCHANGED <<conf, conn, client, data, main, req, nreq, sent, alert, ret>>

Written ==
  LET more == \/ req[R].held # <<>> \/ req[R].postponed # <<>>
              \/ R = Main /\ conn.buffered
  IN
  /\ In("written")
  /\ CASE ret = "error" ->
            Calls(<<Finalize(R, "error")>>) /\ UNCHANGED <<conn, req>>
       [] ret # "error" /\ more ->
            /\ conn' = [conn EXCEPT !.wtimer = TRUE]
            /\ Calls(<<>>) /\ req' = req
       [] OTHER ->
            /\ req' = [req EXCEPT ![R].weh = "empty"]
            /\ Calls(<<Finalize(R, ret)>>) /\ conn' = conn
  /\ UNCHANGED <<conf, client, data, main, nreq, sent, alert, ret>>

\* r->read_event_handler(r): ngx_http_block_reading() and the empty handler
RunReadHandler ==
  /\ In("reh") /\ req[R].reh \in {"block", "empty"}
  /\ Calls(<<>>)
  /\ UNCHANGED <<conf, conn, client, data, main, req, nreq, sent, alert, ret>>

\* ngx_http_test_reading()
TestReading ==
  /\ In("reh") /\ req[R].reh = "test_reading"
  /\ LET gone == client = "gone" IN
     /\ conn' = [conn EXCEPT !.error = @ \/ gone, !.eof = @ \/ gone]
     /\ Calls(IF gone THEN <<Finalize(R, "ok")>> ELSE <<>>)
  /\ UNCHANGED <<conf, client, data, main, req, nreq, sent, alert, ret>>

-----------------------------------------------------------------------------
(* Events.                                                                 *)

Reading == conn.open /\ conn.rd = "headers"
Running == conn.open /\ ~main.freed /\ conn.rd = "request"

\* ngx_http_process_request(): the header has been read.
ProcessRequest ==
  /\ Reading
  /\ conn' = [conn EXCEPT !.rtimer = FALSE, !.rd = "request", !.wr = "request"]
  /\ req' = [req EXCEPT ![Main].reh = "block"]
  /\ \E b \in {"none"} \cup (IF Allowed("body") THEN {"unread"} ELSE {}) :
       \E e \in {FALSE} \cup (IF Allowed("expect") THEN {TRUE} ELSE {}) :
         main' = [main EXCEPT !.body = b, !.expect = e]
  /\ Event(<<Call("ngx_http_handler", Main, "")>>)
  /\ UNCHANGED <<conf, client, data, nreq, sent, alert, ret>>

\* The header is wrong; this path does not run posted requests.
BadRequest ==
  /\ Reading /\ todo = <<>>
  /\ todo' = <<Finalize(Main, "special")>>
  /\ UNCHANGED <<conf, conn, client, data, main, req, nreq, sent, alert, ret>>

\* The client closes its side.
ClientCloses ==
  /\ conn.open /\ client = "here" /\ todo = <<>>
  /\ client' = "gone"
  /\ conn' = [conn EXCEPT !.error = @ \/ conn.rd = "headers"]
  /\ todo' = CASE conn.rd = "headers" -> <<Finalize(Main, "special")>>
               [] conn.rd = "request" -> <<Call("reh", data, ""), RunPosted>>
               [] conn.rd = "keepalive" -> <<Call("close_connection", Main, "")>>
               [] OTHER -> <<Call("close", Main, "")>>
  /\ UNCHANGED <<conf, data, main, req, nreq, sent, alert, ret>>

\* Bytes of the body arrive, or the end of the client's side is reported once
\* more: a level-triggered event method does so until it is read, epoll with
\* the next change of the socket
BodyArrives ==
  /\ Running
  /\ req[data].reh \in {"read_body", "discard"} \/ client = "gone"
  /\ Event(<<Call("reh", data, "")>>)
  /\ UNCHANGED <<conf, conn, client, data, main, req, nreq, sent, alert, ret>>

\* ngx_event_expire_timers()
ReadTimer ==
  /\ conn.open /\ conn.rtimer /\ todo = <<>>
  /\ conn' = [conn EXCEPT !.rtimer = FALSE, !.rtimedout = TRUE]
  /\ todo' = CASE conn.rd \in {"headers", "lingering"} -> <<Call("close", Main, "")>>
               [] conn.rd = "request" -> <<Call("reh", data, ""), RunPosted>>
               [] OTHER -> <<Call("close_connection", Main, "")>>
  /\ UNCHANGED <<conf, client, data, main, req, nreq, sent, alert, ret>>

WriteHandler == IF conn.wr = "request"
                THEN <<Call("weh", data, ""), RunPosted>> ELSE <<>>

WriteTimer ==
  /\ conn.open /\ conn.wtimer /\ todo = <<>>
  /\ conn' = [conn EXCEPT !.wtimer = FALSE, !.wtimedout = TRUE]
  /\ todo' = WriteHandler
  /\ UNCHANGED <<conf, client, data, main, req, nreq, sent, alert, ret>>

\* The client takes what was buffered.
Writable ==
  /\ Running /\ todo = <<>> /\ ~conn.wready
  /\ conn' = [conn EXCEPT !.wready = TRUE]
  /\ todo' = WriteHandler
  /\ UNCHANGED <<conf, client, data, main, req, nreq, sent, alert, ret>>

\* ngx_http_copy_aio_event_handler()
AioDone(r) ==
  /\ req[r].aio /\ todo = <<>>
  /\ req' = [req EXCEPT ![r].aio = FALSE]
  /\ main' = [main EXCEPT !.blocked = @ - 1]
  /\ todo' = WriteHandler
  /\ UNCHANGED <<conf, conn, client, data, nreq, sent, alert, ret>>

\* ngx_http_keepalive_handler(), ngx_http_init_request(): the next request,
\* on this connection or on a new one.
NextRequest ==
  /\ todo = <<>> /\ (conn.rd = "keepalive" \/ ~conn.open)
  /\ ~conn.open \/ client = "here"
  /\ conn' = FreshConn /\ client' = "here" /\ data' = Main /\ main' = FreshMain
  /\ req' = FreshReq /\ nreq' = 1 /\ sent' = <<>> /\ alert' = {}
  /\ ret' = "ok" /\ UNCHANGED <<conf, todo>>

-----------------------------------------------------------------------------
Step ==
  \/ Handler \/ PhasesPass \/ PhasesRefuse \/ PhasesReturn
  \/ PhasesTooLarge \/ PhasesDelay \/ PhasesRewrite \/ ContentPhase \/ InternalRedirect \/ ProducePiece
  \/ ProduceSubrequest \/ ProduceEnd
  \/ CopyFilterAio \/ CopyFilterBusy \/ CopyFilterPass \/ PostponeFilter
  \/ PostponeWake \/ PostponeOutput \/ PostponeNext \/ WriteFilter
  \/ WriteFilterFails \/ DiscardBody \/ DiscardNotContinued \/ ReadBody \/ ReadBodyFails
  \/ ReadBodyHandler \/ DiscardedBodyHandler \/ UpstreamInit
  \/ UpstreamFinalize \/ CheckBroken \/ DownstreamHandler \/ DownstreamFlushed
  \/ FinalizeDeclined \/ FinalizeBroken \/ FinalizeClose
  \/ FinalizeSpecial \/ ErrorPage \/ SpecialResponse \/ FinalizeWait
  \/ FinalizeActiveSubrequest \/ FinalizeInactiveSubrequest
  \/ FinalizeMain \/ PostActionRuns
  \/ TerminateRequest \/ Terminated \/ FinalizeConnectionShared
  \/ SetKeepalive \/ KeepaliveSet \/ SetLingeringClose
  \/ FinalizeConnectionClose \/ CloseRequest \/ FreeRequest \/ RequestFreed
  \/ CloseConnection \/ RunPostedRequests \/ RunWriteHandler \/ DelayHandler
  \/ TerminateHandler \/ Writer \/ Written \/ RunReadHandler \/ TestReading

Next ==
  \/ Step \/ ProcessRequest \/ BadRequest \/ ClientCloses \/ BodyArrives
  \/ ReadTimer \/ WriteTimer \/ Writable \/ NextRequest
  \/ \E r \in Reqs : UpstreamSends(r) \/ UpstreamIncludes(r)
                     \/ UpstreamEnds(r) \/ AioDone(r)

Spec == Init /\ [][Next]_vars

-----------------------------------------------------------------------------
(* Properties.                                                             *)

Pieces == {<<r, i>> : r \in Reqs, i \in 1..conf.doc}

\* The fields of the model have their types; uri_changes never leaves its four
\* bits.
TypeOK ==
  /\ conf \in Confs /\ data \in 0..conf.reqs /\ nreq \in Reqs
  /\ client \in {"here", "gone"}
  /\ conn.rd \in {"headers", "request", "keepalive", "lingering"}
  /\ conn.wr \in {"empty", "request"}
  /\ \A f \in DOMAIN conn \ {"rd", "wr"} : conn[f] \in BOOLEAN
  /\ main.count \in Int /\ main.blocked \in Nat
  /\ Range(main.posted) \cup Range(main.cleanup) \subseteq 1..nreq
  /\ main.body \in {"none", "unread", "read"}
  /\ \A r \in Reqs :
       /\ req[r].parent \in 0..conf.reqs
       /\ req[r].uri_changes \in 0..(UriMod - 1)
       /\ req[r].upstream \in {"no", "waiting", "sending"}
       /\ Range(req[r].held) \subseteq Pieces
       /\ Range(req[r].doc) \subseteq 0..nreq
  /\ Range(sent) \subseteq Pieces

\* The document of each request, with those of its subrequests in place.
Flat[r \in 0..conf.reqs] ==
  IF r = 0 THEN <<>>
  ELSE FlattenSeq([i \in 1..Len(req[r].doc) |->
         IF req[r].doc[i] = 0 THEN << <<r, i>> >> ELSE Flat[req[r].doc[i]]])

\* Requests and subrequests produce their output in any order; it reaches the
\* client in the order of the document (ngx_http_postpone_filter()).  The state
\* has its type.
OutputInOrder == TypeOK /\ IsPrefix(sent, Flat[Main])

\* A request that is completed has been sent completely, whatever was
\* postponed, held for the disk or buffered on the way
NothingLost == main.complete /\ ~conn.error => sent = Flat[Main]

\* Nothing runs for a request whose pool was destroyed; what is left on the
\* stack looks at c->destroyed first.  Nor is a handler called that was never
\* set, or the handler of a request that does not exist.
NoUseAfterFree ==
  /\ main.freed /\ todo # <<>> =>
       Head(todo).op \in {"run_posted", "keepalive", "close_connection"}
  /\ In("weh") => R \in 1..nreq /\ req[R].weh # "none"
  /\ In("reh") => R \in 1..nreq /\ req[R].reh # "none"

\* "http request count is zero", "subrequest logged again" and "http finalize
\* non-active request" are never logged
NoAlerts == alert = {}

\* Who holds a reference: the main request until it is complete, each
\* subrequest until it was finalized as the active one, and the discarding of
\* the body.
Holders ==
  (IF main.complete /\ ~req[Main].post_action THEN 0 ELSE 1)
  + Cardinality({r \in 2..nreq : ~req[r].logged})
  + (IF req[Main].discard_body THEN 1 ELSE 0)

\* Between events r->main->count is the number of its holders.  A request that
\* was terminated while file AIO ran for it goes on with the count its
\* upstreams left it, and one whose body could not be read has kept a
\* reference too many.
CountIsHolders ==
  todo = <<>> /\ Running /\ ~main.doomed /\ ~main.leaked =>
    main.count = Holders

\* A worker that shuts down leaves when it has no timers, and no socket should
\* be open then ("open socket #%d left in connection"): a connection that
\* waits has a timer, or its upstream has, or a disk is working for it
NoSocketLeft ==
  todo = <<>> /\ conn.open =>
    \/ conn.rtimer \/ conn.wtimer
    \/ \E r \in Reqs : req[r].upstream # "no" \/ req[r].aio

\* ... unless the body could not be read, or the client closed its side while
\* the body was discarded, and the body is discarded again, or the location of
\* an error_page terminated a request with a wrong header (nobody runs the
\* posted requests on that path)
Attended ==
  \/ main.leaked \/ NoSocketLeft
  \/ conn.eof /\ req[Main].discard_body
  \/ Allowed("early") /\ main.posted # <<>>

\* The references to a request (ngx_http_request_t.count) are its holders, so
\* the request is freed when the last of them lets it go: not before, when it
\* would still be used, nor a second time, which an alert would tell.  One
\* case is excluded, from the step on at which it happens: the client has gone
\* while its body was discarded, ngx_http_discarded_request_body_handler()
\* stays installed, and the next event makes it drop a reference it no longer
\* has (`again`).
ReferencesCounted ==
  main.again \/ (CountIsHolders /\ NoUseAfterFree /\ NoAlerts)

\* What the client receives of a document made of subrequests, postponed
\* pieces and buffers held for the disk is the document: in order
\* (ngx_http_postpone_filter()), and all of it when the request is completed.
OutputWhole == OutputInOrder /\ NothingLost
=============================================================================
