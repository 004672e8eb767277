------------------------------ MODULE HttpInput ------------------------------
(***************************************************************************)
(* Reading the requests of one client connection (http/ngx_http_request.c: *)
(* request line, headers, large header buffers, pipelining).  The strings  *)
(* of a request are pointers into c->buffer and the large buffers, so they *)
(* are what is in memory when the request is processed.                    *)
(***************************************************************************)
EXTENDS HttpParse

CONSTANTS
  Scripts,      \* what a client may send: sequences of requests
  BufSize,      \* client_header_buffer_size
  LargeSize,    \* large_client_header_buffers.size
  LargeNum,     \* large_client_header_buffers.num
  MergeSlashes

(* A request of a script: line, the request line; uri, exten and args it
   stands for; headers, a sequence of [line, name, value]; keepalive. *)

VARIABLES
  script, told,  \* the requests, and how many of them were processed
  mem,           \* the bytes of the buffers
  c,             \* connection and request
  fed,           \* bytes of the stream that were received
  phase          \* "line", "headers", "process", "keepalive", "closed" or an error

vars == <<script, told, mem, c, fed, phase>>

(* buffer 0 is c->buffer; the addresses of the others follow it *)
Start(k) == IF k = 0 THEN 1 ELSE BufSize + (k - 1) * LargeSize + 1
End(k)   == IF k = 0 THEN 1 + BufSize ELSE Start(k) + LargeSize
Bufs     == 0..LargeNum

Concat(ss) == FoldLeft(LAMBDA acc, s : acc \o s, <<>>, ss)
TextOf(q) == q.line \o Concat([i \in DOMAIN q.headers |-> q.headers[i].line])
               \o (IF q.nine THEN <<>> ELSE <<LF>>)
Stream == Concat([i \in DOMAIN script |-> TextOf(script[i])])

(* ngx_http_init_connection() and ngx_http_init_request(): header_in is the
   first busy buffer or c->buffer *)
NewRequest(x) ==
  [x EXCEPT !.in = IF x.busy # <<>> THEN x.busy[1] ELSE 0,
            !.r = NoRequestLine, !.h = NoHeaderLine, !.headers = <<>>]

Init ==
  /\ script \in Scripts
  /\ told = 0
  /\ mem = [a \in 1..(End(LargeNum) - 1) |-> 0]
  /\ c = NewRequest([pos |-> [k \in Bufs |-> Start(k)], last |-> [k \in Bufs |-> Start(k)],
                     busy |-> <<>>, free |-> <<>>, in |-> 0, r |-> NoRequestLine,
                     h |-> NoHeaderLine, headers |-> <<>>])
  /\ fed = 0
  /\ phase = "line"
----------------------------------------------------------------------------
Full == c.pos[c.in] = End(c.in)
Unread == c.pos[c.in] < c.last[c.in]

(* c->recv() into the buffer: n bytes *)
Received(m, at, n) == [a \in DOMAIN m |-> IF a \in at..(at + n - 1)
                                          THEN Stream[fed + a - at + 1] ELSE m[a]]

(* ngx_http_read_request_header(), when all that was read is parsed *)
Read(n) ==
  /\ phase \in {"line", "headers"} /\ ~Unread /\ ~Full
  /\ n <= End(c.in) - c.last[c.in] /\ n <= Len(Stream) - fed
  /\ mem' = Received(mem, c.last[c.in], n)
  /\ c' = [c EXCEPT !.last[c.in] = @ + n]
  /\ fed' = fed + n
  /\ UNCHANGED <<script, told, phase>>

(* end of file or an error; a time-out *)
ReadFails ==
  /\ phase \in {"line", "headers"} /\ ~Unread /\ ~Full
  /\ phase' = "closed"
  /\ UNCHANGED <<script, told, mem, c, fed>>

(* the buffer that ngx_http_alloc_large_header_buffer() takes: a free one or
   a new one *)
Fresh(x) == CHOOSE k \in 1..LargeNum :
              /\ k \notin ToSet(x.busy) \cup ToSet(x.free)
              /\ \A j \in 1..(k - 1) : j \in ToSet(x.busy) \cup ToSet(x.free)

NoMore(x) == x.free = <<>> /\ Len(x.busy) >= LargeNum
Take(x) == IF x.free # <<>> THEN Last(x.free) ELSE Fresh(x)

Moved(p, old, new) == new + p - old

(* a mutant: the place of the extension is forgotten *)
MoveLineNoExt(r, old, new) ==
  LET M(p) == Moved(p, old, new)
      MSet(p) == IF p = 0 THEN 0 ELSE M(p)
  IN [r EXCEPT !.request_start = new, !.request_end = MSet(@), !.method_end = M(@),
               !.uri_start = M(@), !.uri_end = M(@),
               !.host_start = MSet(@),
               !.args_start = MSet(@), !.http_protocol = MSet(@)]

(* what it does to the pointers of the line and of the header *)
MoveLine(r, old, new) ==
  LET M(p) == Moved(p, old, new)
      MSet(p) == IF p = 0 THEN 0 ELSE M(p)
  IN [r EXCEPT !.request_start = new, !.request_end = MSet(@), !.method_end = M(@),
               !.uri_start = M(@), !.uri_end = M(@),
               !.schema_start = MSet(@),
               !.schema_end = IF r.schema_start = 0 THEN @ ELSE M(@),
               !.host_start = MSet(@),
               !.host_end = IF r.host_start = 0 THEN @ ELSE MSet(@),
               !.uri_ext = MSet(@), !.args_start = MSet(@), !.http_protocol = MSet(@)]
MoveHeader(h, old, new) ==
  [h EXCEPT !.name_start = new, !.name_end = Moved(@, old, new),
            !.start = Moved(@, old, new), !.end = Moved(@, old, new)]

(* ngx_http_alloc_large_header_buffer(); full is the status of a refusal *)
AllocLarge(line, full) ==
  LET state == IF line THEN c.r.state ELSE c.h.state
      old   == IF line THEN c.r.request_start ELSE c.h.name_start
      len   == c.pos[c.in] - old
      k     == Take(c)
      got   == [c EXCEPT !.busy = Append(@, k), !.in = k,
                         !.free = IF @ = <<>> THEN @ ELSE Front(@)]
  IN
  CASE line /\ state = "start" ->
         /\ c' = [c EXCEPT !.pos[c.in] = Start(c.in), !.last[c.in] = Start(c.in)]
         /\ UNCHANGED <<mem, phase>>
    [] /\ ~(line /\ state = "start")
       /\ \/ state # "start" /\ len >= LargeSize
          \/ NoMore(c) ->
         phase' = full /\ UNCHANGED <<mem, c>>
    [] OTHER ->
         IF state = "start" THEN c' = got /\ UNCHANGED <<mem, phase>>
         ELSE /\ mem' = [a \in DOMAIN mem |->
                           IF a \in Start(k)..(Start(k) + len - 1)
                           THEN mem[old + a - Start(k)] ELSE mem[a]]
              /\ c' = [got EXCEPT !.pos[k] = Start(k) + len, !.last[k] = Start(k) + len,
                                  !.r = IF line THEN MoveLine(@, old, Start(k)) ELSE @,
                                  !.h = IF line THEN @ ELSE MoveHeader(@, old, Start(k))]
              /\ UNCHANGED phase

LineFull ==
  /\ phase = "line" /\ ~Unread /\ Full
  /\ AllocLarge(TRUE, "uri_too_large")
  /\ UNCHANGED <<script, told, fed>>

HeaderFull ==
  /\ phase = "headers" /\ ~Unread /\ Full
  /\ AllocLarge(FALSE, "header_too_large")
  /\ UNCHANGED <<script, told, fed>>

(* r->uri, r->exten and r->args, as ngx_http_process_request_line() sets them *)
UriOf(r, m) ==
  LET raw == Text(m, r.uri_start, r.uri_end)
      end == IF r.args_start # 0 THEN r.args_start - 1 ELSE r.uri_end
  IN IF r.complex_uri \/ r.quoted_uri THEN ParseComplexUri(raw, MergeSlashes)
     ELSE [ rc |-> "ok", uri |-> Text(m, r.uri_start, end),
            exten |-> IF r.uri_ext # 0 THEN Text(m, r.uri_ext, end) ELSE <<>>,
            args |-> IF r.args_start # 0 THEN Text(m, r.args_start, r.uri_end) ELSE <<>> ]

(* ngx_http_process_request_line(): a request before HTTP/1.0 has no headers *)
ParseLine ==
  /\ phase = "line" /\ Unread
  /\ LET r == ParseRequestLine(c.r, mem, c.pos[c.in], c.last[c.in])
         host == IF r.host_end = 0 THEN <<1>> ELSE ValidateHost(Text(mem, r.host_start, r.host_end))
         bad == \/ r.rc \notin {"ok", "again"}
                \/ r.rc = "ok" /\ (UriOf(r, mem).rc = "invalid" \/ host = <<>>)
     IN /\ c' = [c EXCEPT !.r = r, !.pos[c.in] = r.pos]
        /\ phase' = IF bad THEN "bad_request"
                    ELSE IF r.rc = "again" THEN "line"
                    ELSE IF r.http_major * 1000 + r.http_minor < 1000 THEN "process" ELSE "headers"
  /\ UNCHANGED <<script, told, mem, fed>>

(* ngx_http_process_request_headers(): a line, which is ended by zeros in
   place, or the end, and ngx_http_process_request_header() *)
HostName == <<104, 111, 115, 116>>
Named(h, m) == [i \in 1..(h.name_end - h.name_start) |-> LowCase(m[h.name_start + i - 1])]
HasHost == \E i \in DOMAIN c.headers : Named(c.headers[i], mem) = HostName

ParseHeader ==
  /\ phase = "headers" /\ Unread
  /\ LET h == ParseHeaderLine(c.h, mem, c.pos[c.in], c.last[c.in], FALSE, FALSE)
         x == [c EXCEPT !.h = h, !.pos[c.in] = h.pos]
         zeroed == [mem EXCEPT ![h.name_end] = 0, ![h.end] = 0]
         hostbad == Named(h, mem) = HostName /\ ValidateHost(Text(mem, h.start, h.end)) = <<>>
     IN CASE h.rc = "again" -> c' = x /\ UNCHANGED <<mem, phase>>
          [] h.rc = "ok" /\ h.invalid -> c' = x /\ UNCHANGED <<mem, phase>>
          [] h.rc = "ok" /\ ~h.invalid ->
               /\ c' = [x EXCEPT !.headers = Append(@, h)]
               /\ mem' = zeroed
               /\ phase' = IF hostbad THEN "bad_request" ELSE phase
          [] h.rc = "header_done" ->
               /\ c' = x
               /\ phase' = IF ~HasHost /\ c.r.http_major * 1000 + c.r.http_minor > 1000
                           THEN "bad_request" ELSE "process"
               /\ UNCHANGED mem
          [] OTHER -> c' = x /\ phase' = "bad_request" /\ UNCHANGED mem
  /\ UNCHANGED <<script, told, fed>>

(* ngx_http_set_keepalive() after the response: what was read of the next
   request stays where it is; else all the buffers are given back *)
KeepAlive ==
  /\ phase = "process"
  /\ told' = told + 1
  /\ LET b == c.in
         pipelined == [c EXCEPT !.free = IF b = 0 THEN @ ELSE @ \o Front(c.busy),
                                !.pos  = [k \in Bufs |-> IF b # 0 /\ k \in ToSet(Front(c.busy))
                                                         THEN Start(k) ELSE @[k]],
                                !.last = [k \in Bufs |-> IF b # 0 /\ k \in ToSet(Front(c.busy))
                                                         THEN Start(k) ELSE @[k]],
                                !.busy = IF b = 0 THEN @ ELSE <<b>>]
         idle == [c EXCEPT !.pos = [k \in Bufs |-> Start(k)], !.last = [k \in Bufs |-> Start(k)],
                           !.busy = <<>>, !.free = <<>>]
     IN IF ~script[told + 1].keepalive THEN phase' = "closed" /\ UNCHANGED c
        ELSE IF Unread THEN c' = NewRequest(pipelined) /\ phase' = "line"
        ELSE c' = NewRequest(idle) /\ phase' = "keepalive"
  /\ UNCHANGED <<script, mem, fed>>

(* ngx_http_keepalive_handler() *)
NextRequest(n) ==
  /\ phase = "keepalive" /\ n <= BufSize /\ n <= Len(Stream) - fed
  /\ mem' = Received(mem, c.last[0], n)
  /\ c' = [c EXCEPT !.last[0] = @ + n]
  /\ fed' = fed + n
  /\ phase' = "line"
  /\ UNCHANGED <<script, told>>

Next ==
  \/ \E n \in 1..(BufSize + LargeSize) : Read(n) \/ NextRequest(n)
  \/ ReadFails \/ LineFull \/ HeaderFull \/ ParseLine \/ ParseHeader \/ KeepAlive

Spec == Init /\ [][Next]_vars
----------------------------------------------------------------------------
(* Properties *)

(* However the bytes arrive and whatever buffers they move through, when a
   request is processed its method, URI, extension, arguments and headers are
   the ones the client sent, in order. *)
RequestAsSent ==
  phase = "process" =>
    LET q == script[told + 1]
        u == UriOf(c.r, mem)
        valid == SelectSeq(q.headers, LAMBDA h : h.valid)
    IN /\ Text(mem, c.r.request_start, c.r.method_end + 1) = q.method
       /\ u.uri = q.uri /\ u.exten = q.exten /\ u.args = q.args
       /\ Len(c.headers) = Len(valid)
       /\ \A i \in DOMAIN valid :
            /\ Text(mem, c.headers[i].name_start, c.headers[i].name_end) = valid[i].name
            /\ Text(mem, c.headers[i].start, c.headers[i].end) = valid[i].value

(* A request that fits in one large buffer is not refused for its size, and
   the arrays of buffers, LargeNum long, do not overflow. *)
FitsIsRead ==
  /\ Len(c.busy) + Len(c.free) <= LargeNum
  /\ phase \in {"uri_too_large", "header_too_large"} /\ LargeNum > 1 =>
       Len(TextOf(script[told + 1])) > LargeSize
==============================================================================
