------------------------------ MODULE MailRelay ------------------------------
(***************************************************************************)
(* The relay between a mail client and its server after the log in         *)
(* (ngx_mail_proxy_handler()), with edge-triggered events.  A byte is its  *)
(* number in the stream of its direction.                                  *)
(***************************************************************************)
EXTENDS Integers, Sequences, SequencesExt

CONSTANTS
  Bytes,   \* how many bytes each side sends at most
  Size,    \* of each of the two buffers
  Room     \* what a socket takes before its peer reads

Conns == {"client", "server"}
Far(k) == IF k = "client" THEN "server" ELSE "client"

VARIABLES
  net,     \* per connection: bytes sent by the peer and not read (in), the end
           \* of them (fin), bytes sent to the peer and not read (out), and what
           \* the peer got
  con,     \* per connection: read ready, eof; write ready
  buf,     \* per source: the buffer of what it sent, mem[pos..last-1]
  ev,      \* the events that were reported and not handled: <<connection, write>>
  timer,   \* of the client's connection
  up,      \* the session lives, or how it ended: "yes", "done", "late"
  rush     \* the client did not wait for the log in

vars == <<net, con, buf, ev, timer, up, rush>>

Init ==
  /\ rush \in BOOLEAN
  /\ net = [k \in Conns |-> [in |-> IF rush /\ k = "client" THEN <<1>> ELSE <<>>,
                             sent |-> IF (k = "server") \/ rush THEN 1 ELSE 0,
                             fin |-> FALSE, out |-> <<>>, got |-> <<>>]]
  /\ con = [k \in Conns |-> [ready |-> rush /\ k = "client", eof |-> FALSE, writable |-> TRUE]]
  /\ buf = [k \in Conns |-> [mem |-> [i \in 1..Size |-> 1], pos |-> 1,
                             last |-> IF k = "server" THEN 2 ELSE 1]]
  /\ ev = {<<"client", TRUE>>}      \* the last answer of the log in is to be sent
  /\ timer = TRUE
  /\ up = "yes"
----------------------------------------------------------------------------
Held(b) == SubSeq(b.mem, b.pos, b.last - 1)
Least(a, b) == IF a < b THEN a ELSE b

(* dst->send(): what the socket takes *)
Put(x, dst) ==
  LET b == x.buf
      n == Least(b.last - b.pos, Room - Len(x.net[dst].out))
      left == [b EXCEPT !.pos = @ + n]
      full == n < b.last - b.pos
  IN IF b.last = b.pos \/ ~x.con[dst].writable THEN x
     ELSE [x EXCEPT !.net[dst].out = @ \o SubSeq(b.mem, b.pos, b.pos + n - 1),
                    !.con[dst].writable = ~full,
                    !.buf = IF left.pos = left.last THEN [left EXCEPT !.pos = 1, !.last = 1]
                            ELSE left]

(* src->recv(): ready stays only when the buffer was filled *)
Get(x, src) ==
  LET b == x.buf
      room == Size + 1 - b.last
      n == Least(room, Len(x.net[src].in))
  IN IF room = 0 \/ ~x.con[src].ready THEN [x EXCEPT !.go = FALSE]
     ELSE IF n = 0 THEN [x EXCEPT !.go = FALSE, !.con[src].ready = FALSE,
                                  !.con[src].eof = x.net[src].fin]
     ELSE [x EXCEPT !.net[src].in = SubSeq(@, n + 1, Len(@)), !.write = TRUE,
                    !.con[src].ready = n = room,
                    !.buf = [b EXCEPT !.last = @ + n,
                                      !.mem = [i \in 1..Size |->
                                                 IF i \in b.last..(b.last + n - 1)
                                                 THEN x.net[src].in[i - b.last + 1] ELSE @[i]]]]

(* the loop of ngx_mail_proxy_handler(); it turns once per filled buffer *)
Turns == [i \in 1..(Bytes + 2) |-> i]
Relay(src, write) ==
  LET dst == Far(src)
      Turn(x) == IF ~x.go THEN x ELSE Get(IF x.write THEN Put(x, dst) ELSE x, src)
  IN FoldLeft(LAMBDA x, i : Turn(x),
              [net |-> net, con |-> con, buf |-> buf[src], write |-> write, go |-> TRUE], Turns)

(* a mutant: an end of file closes at once *)
OverAtEof(c, b) == \E k \in Conns : c[k].eof

(* the session is over when a side ended and all it sent went on, or both
   ended *)
Over(c, b) == \/ \E k \in Conns : c[k].eof /\ b[k].pos = b[k].last
              \/ \A k \in Conns : c[k].eof

(* an event of a connection: a read of k takes from k, a write of k takes from
   the other side *)
Handler(k, write) ==
  /\ up = "yes" /\ <<k, write>> \in ev
  /\ ev' = ev \ {<<k, write>>}
  /\ LET src == IF write THEN Far(k) ELSE k
         x == Relay(src, write)
         b == [buf EXCEPT ![src] = x.buf]
     IN /\ net' = x.net /\ con' = x.con /\ buf' = b
        /\ up' = IF Over(x.con, b) THEN "done" ELSE "yes"
        /\ timer' = (k = "client" \/ timer)
  /\ UNCHANGED rush

(* a send or a recv that fails, and the client's timer: ngx_mail_proxy_close_session() *)
Timeout ==
  /\ up = "yes" /\ timer
  /\ up' = "late"
  /\ UNCHANGED <<net, con, buf, ev, timer, rush>>

(* The peers and the kernel.  epoll reports both directions of a connection
   that are ready when either changes; the flags are set before the handlers
   run. *)
Report(k, c, n) ==
  LET w == Len(n[k].out) < Room
  IN /\ ev' = ev \cup {<<k, FALSE>>} \cup (IF w /\ (k = "server" \/ ~c[k].writable)
                                           THEN {<<k, TRUE>>} ELSE {})
     /\ con' = [c EXCEPT ![k].ready = TRUE, ![k].writable = @ \/ w]
PeerSends(k) ==
  /\ up = "yes" /\ net[k].sent < Bytes /\ ~net[k].fin
  /\ net' = [net EXCEPT ![k].in = Append(@, net[k].sent + 1), ![k].sent = @ + 1]
  /\ Report(k, con, net')
  /\ UNCHANGED <<buf, timer, up, rush>>
PeerCloses(k) ==
  /\ up = "yes" /\ ~net[k].fin
  /\ net' = [net EXCEPT ![k].fin = TRUE]
  /\ Report(k, con, net')
  /\ UNCHANGED <<buf, timer, up, rush>>
PeerReads(k) ==
  /\ up = "yes" /\ net[k].out # <<>>
  /\ net' = [net EXCEPT ![k].out = <<>>, ![k].got = @ \o net[k].out]
  /\ IF con[k].writable THEN UNCHANGED <<con, ev>>
     ELSE con' = [con EXCEPT ![k].writable = TRUE] /\ ev' = ev \cup {<<k, TRUE>>}
  /\ UNCHANGED <<buf, timer, up, rush>>

Next == \/ \E k \in Conns, w \in BOOLEAN : Handler(k, w)
        \/ \E k \in Conns : PeerSends(k) \/ PeerCloses(k) \/ PeerReads(k)
        \/ Timeout

Spec == Init /\ [][Next]_vars
----------------------------------------------------------------------------
(* What a side sent reaches the other in order, and nothing of it is left out
   when the session ends because this side closed and the other did not. *)
Through(k) == net[Far(k)].got \o net[Far(k)].out
RelayedWhole ==
  \A k \in Conns :
    /\ Through(k) \o Held(buf[k]) \o net[k].in = [i \in 1..net[k].sent |-> i]
    /\ up = "done" /\ con[k].eof /\ ~con[Far(k)].eof => Len(Through(k)) = net[k].sent

(* Nothing waits that could go on, once the events that came are handled: not
   in a buffer whose reader is ready, not in a socket while its buffer is
   empty.  (A client that sends before its log in is answered may wait for the
   next event of the server.) *)
NothingWaits ==
  up = "yes" /\ ev = {} =>
    \A k \in Conns :
      /\ Held(buf[k]) # <<>> => Len(net[Far(k)].out) > 0
      /\ buf[k].last = 1 /\ ~(rush /\ k = "client") => net[k].in = <<>>
==============================================================================
