----------------------------- MODULE OutputChain -----------------------------
(****************************************************************************)
(* ngx_output_chain() (core/ngx_output_chain.c) between a filter that gives  *)
(* it buffers of memory and of files and the next filter, which sends when   *)
(* it can: buffers that can go as they are do, the others are copied or read *)
(* into at most bufs.num buffers of its own, which are used again once they  *)
(* have been sent; a read may be asynchronous.  The next filter is           *)
(* ngx_chain_writer() or the write filter: it keeps what the socket does not *)
(* take.  The buffers are shared by all of them.                             *)
(*                                                                           *)
(* The bytes of the response are numbered; a buffer holds those from .. to-1. *)
(****************************************************************************)
EXTENDS Integers, Sequences, FiniteSets, SequencesExt

CONSTANTS Confs,      \* what ngx_output_chain_ctx_t is configured with
          Scripts,    \* the chains a response is made of, in the order they are given
          MaxOwn      \* bound on the buffers that are made

VARIABLES conf,
          given,      \* the chains still to be given
          bufs,       \* the buffers
          ctx,        \* ngx_output_chain_ctx_t: in, buf, free, busy, allocated, aio, directio
          out, last,  \* locals of ngx_output_chain
          pc,         \* where it is
          q,          \* what the next filter has not sent
          wire        \* the bytes on the wire

vars == <<conf, given, bufs, ctx, out, last, pc, q, wire>>

None == 0

Size(b) == b.to - b.from
Special(b) == b.mem = "none" /\ ~b.infile
InMemory(b) == b.mem # "none"

\* A buffer of its own; tag: it is taken back when it has been sent.
Own(cap, tag) ==
    [mem |-> "temp", infile |-> FALSE, direct |-> FALSE, from |-> 0, to |-> 0, fpos |-> 0,
     last |-> FALSE, lastInChain |-> FALSE, cap |-> cap, tag |-> tag]

\* ngx_output_chain_as_is: a buffer that is in memory as well is no longer a file without sendfile.
AsIs(b) ==
    \/ Special(b)
    \/ /\ ~(b.infile /\ b.direct)
       /\ conf.sendfile \/ InMemory(b)
       /\ conf.needInMemory => InMemory(b)
       /\ conf.needInTemp => b.mem # "memory"

AsIsBuf(b) == IF InMemory(b) /\ ~conf.sendfile THEN [b EXCEPT !.infile = FALSE] ELSE b

\* ngx_output_chain_align_file_buf: a piece of a directio file up to the next aligned offset, or the
\* last one that is smaller than a buffer, gets a buffer of its size.  0: declined.
AlignedSize(b) ==
    LET over == b.fpos % conf.alignment
    IN  IF ~(b.infile /\ b.direct) THEN 0
        ELSE IF over = 0 THEN IF Size(b) >= conf.bufSize THEN 0 ELSE Size(b)
        ELSE IF conf.alignment - over > Size(b) THEN Size(b) ELSE conf.alignment - over

\* ngx_output_chain_get_buf: the last piece of a chain may get a smaller one.
GetBufSize(b, directio) ==
    LET size == conf.bufSize
    IN  IF b.lastInChain /\ (Size(b) < size
                             \/ (~directio /\ conf.num = 1 /\ Size(b) < size + size \div 4))
        THEN Size(b) ELSE size

\* A mistaken form: the source is moved past bytes that were not copied.
CopiedTooFar(src, dst, directio) ==
    LET c == IF Size(src) < dst.cap THEN Size(src) ELSE dst.cap
    IN  [src |-> [src EXCEPT !.from = src.to], dst |-> [dst EXCEPT !.from = src.from, !.to = src.from + c]]

\* ngx_output_chain_copy_buf once the bytes are there.
Copied(src, dst, directio) ==
    LET n == IF Size(src) < dst.cap THEN Size(src) ELSE dst.cap
        sendfile == conf.sendfile /\ ~directio
        ends == src.from + n = src.to
    IN  [src |-> [src EXCEPT !.from = @ + n, !.fpos = IF src.infile THEN @ + n ELSE @],
         dst |-> [dst EXCEPT !.from = src.from, !.to = src.from + n,
                             !.infile = src.infile /\ sendfile,
                             !.fpos = IF src.infile /\ sendfile THEN src.fpos ELSE 0,
                             !.last = IF ends THEN src.last ELSE @,
                             !.lastInChain = IF ends THEN src.lastInChain ELSE @]]

\* ngx_chain_update_chains.
UpdateChains(c, o) ==
    LET all == c.busy \o o
        full == {i \in DOMAIN all : Size(bufs[all[i]]) # 0}
        k == IF full = {} THEN Len(all) ELSE (CHOOSE i \in full : \A j \in full : i <= j) - 1
        sent == SubSeq(all, 1, k)
    IN  [c EXCEPT !.busy = SubSeq(all, k + 1, Len(all)),
                  !.free = Reverse(SelectSeq(sent, LAMBDA i : bufs[i].tag)) \o @]

Init ==
    /\ conf \in Confs
    /\ given \in Scripts
    /\ bufs = << >>
    /\ ctx = [in |-> << >>, buf |-> None, free |-> << >>, busy |-> << >>, allocated |-> 0,
              aio |-> "no", directio |-> FALSE]
    /\ out = << >> /\ last = "none" /\ pc = "idle" /\ q = << >> /\ wire = << >>

\* The chain is new and simple enough to go to the next filter at once.
Direct(c, b, in) == c.in = << >> /\ c.busy = << >> /\ Len(in) = 1 /\ AsIs(b[in[1]])

Enter(chain) ==
    LET n == Len(bufs)
        b == bufs \o chain
        in == [i \in DOMAIN chain |-> n + i]
    IN  /\ pc = "idle"
        /\ last' = "none"
        /\ IF chain = << >> /\ ctx.in = << >> /\ ctx.busy = << >>
           THEN bufs' = bufs /\ ctx' = ctx /\ out' = << >> /\ pc' = "pass"
           ELSE IF Direct(ctx, b, in)
           THEN bufs' = [b EXCEPT ![in[1]] = AsIsBuf(@)] /\ ctx' = ctx /\ out' = in /\ pc' = "pass"
           ELSE bufs' = b /\ ctx' = [ctx EXCEPT !.in = @ \o in] /\ out' = << >> /\ pc' = "loop"

\* The previous filter gives the next chain of the response.
Body ==
    /\ given # << >>
    /\ Enter(Head(given))
    /\ given' = Tail(given)
    /\ UNCHANGED <<conf, q, wire>>

\* A write event, or the end of an asynchronous read: the filters run with no new chain.
Again ==
    /\ ctx.in # << >> \/ q # << >>
    /\ Enter(<< >>)
    /\ UNCHANGED <<conf, given, q, wire>>

Return(rc) == pc' = "idle" /\ last' = rc /\ out' = << >>

AioStops ==
    /\ pc = "loop" /\ ctx.aio = "reads"
    /\ Return("again")
    /\ UNCHANGED <<conf, given, bufs, ctx, q, wire>>

\* One turn of the inner loop for the buffer b at the head of ctx->in.
PassAsIs ==
    LET i == Head(ctx.in)
    IN  /\ pc = "loop" /\ ctx.aio # "reads" /\ ctx.in # << >>
        /\ AsIs(bufs[i])
        /\ bufs' = [bufs EXCEPT ![i] = AsIsBuf(@)]
        /\ ctx' = [ctx EXCEPT !.in = Tail(@)]
        /\ out' = Append(out, i)
        /\ UNCHANGED <<conf, given, last, pc, q, wire>>

Work(i) == /\ pc = "loop" /\ ctx.aio # "reads" /\ ctx.in # << >> /\ i = Head(ctx.in)
           /\ ~AsIs(bufs[i])

\* A buffer to copy to.
TakeBuf ==
    \E i \in DOMAIN bufs :
       LET b == bufs[i]
           directio == ctx.directio \/ (b.infile /\ b.direct)
           new == Len(bufs) + 1
           New(cap, tag, n) == /\ bufs' = Append(bufs, Own(cap, tag))
                               /\ ctx' = [ctx EXCEPT !.buf = new, !.allocated = @ + n, !.directio = directio]
       IN  /\ Work(i) /\ ctx.buf = None
           /\ Len(bufs) < MaxOwn
           /\ \/ /\ AlignedSize(b) > 0
                 /\ New(AlignedSize(b), FALSE, 0)
              \/ /\ AlignedSize(b) = 0 /\ ctx.free # << >>
                 /\ ctx' = [ctx EXCEPT !.buf = Head(ctx.free), !.free = Tail(@), !.directio = directio]
                 /\ bufs' = bufs
              \/ /\ AlignedSize(b) = 0 /\ ctx.free = << >>
                 /\ out = << >> /\ ctx.allocated # conf.num
                 /\ New(GetBufSize(b, directio), TRUE, 1)
           /\ UNCHANGED <<conf, given, out, last, pc, q, wire>>

NoBuf(i) == /\ Work(i) /\ ctx.buf = None /\ AlignedSize(bufs[i]) = 0 /\ ctx.free = << >>
            /\ (out # << >> \/ ctx.allocated = conf.num)

\* The copy; a file with aio reads first, and the loop is left or the call returns.
CopyBuf ==
    \E i \in DOMAIN bufs :
       LET j == ctx.buf
           c == Copied(bufs[i], bufs[j], ctx.directio)
       IN  /\ Work(i) /\ j # None
           /\ InMemory(bufs[i]) \/ ~conf.aio \/ ctx.aio = "read"
           /\ bufs' = [bufs EXCEPT ![i] = c.src, ![j] = c.dst]
           /\ ctx' = [ctx EXCEPT !.in = IF Size(c.src) = 0 THEN Tail(@) ELSE @, !.buf = None, !.aio = "no"]
           /\ out' = Append(out, j)
           /\ UNCHANGED <<conf, given, last, pc, q, wire>>

AioRead ==
    \E i \in DOMAIN bufs :
       /\ Work(i) /\ ctx.buf # None
       /\ ~InMemory(bufs[i]) /\ conf.aio /\ ctx.aio = "no"
       /\ ctx' = [ctx EXCEPT !.aio = "reads"]
       /\ IF out # << >> THEN pc' = "filter" /\ UNCHANGED <<out, last>> ELSE Return("again")
       /\ UNCHANGED <<conf, given, bufs, q, wire>>

\* ngx_http_copy_aio_event_handler: the read is done, the write handler runs.
AioDone ==
    /\ ctx.aio = "reads" /\ pc = "idle"
    /\ ctx' = [ctx EXCEPT !.aio = "read"]
    /\ UNCHANGED <<conf, given, bufs, out, last, pc, q, wire>>

\* Behind the inner loop.
LoopEnds ==
    /\ pc = "loop" /\ ctx.aio # "reads"
    /\ ctx.in = << >> \/ NoBuf(Head(ctx.in))
    /\ IF out = << >> /\ last # "none"
       THEN Return(IF ctx.in # << >> THEN "again" ELSE last)
       ELSE pc' = "filter" /\ UNCHANGED <<out, last>>
    /\ UNCHANGED <<conf, given, bufs, ctx, q, wire>>

\* The next filter: ngx_chain_writer adds the chain to its own and sends n bytes of it.
Sent(chain, n) ==
    FoldLeft(LAMBDA a, i : LET k == IF Size(bufs[i]) < a.n THEN Size(bufs[i]) ELSE a.n
                           IN  [n |-> a.n - k, bufs |-> [a.bufs EXCEPT ![i].from = @ + k],
                                wire |-> a.wire \o [x \in 1 .. k |-> bufs[i].from + x - 1],
                                q |-> IF k < Size(bufs[i]) THEN Append(a.q, i) ELSE a.q],
             [n |-> n, bufs |-> bufs, wire |-> wire, q |-> << >>], chain)

Pending(chain) == FoldLeft(LAMBDA a, i : a + Size(bufs[i]), 0, chain)

ChainWriter(n) ==
    LET s == Sent(q \o out, n)
        rc == IF s.q = << >> THEN "ok" ELSE "again"
    IN  /\ pc \in {"filter", "pass"}
        /\ n <= Pending(q \o out)
        /\ bufs' = s.bufs /\ wire' = s.wire /\ q' = s.q
        /\ IF pc = "pass" THEN Return(rc) /\ ctx' = ctx
           ELSE /\ last' = rc /\ out' = out /\ pc' = "update" /\ ctx' = ctx
        /\ UNCHANGED <<conf, given>>

Update ==
    /\ pc = "update"
    /\ ctx' = UpdateChains(ctx, out)
    /\ out' = << >> /\ pc' = "loop"
    /\ UNCHANGED <<conf, given, bufs, last, q, wire>>

Next ==
    \/ Body \/ Again \/ AioStops \/ PassAsIs \/ TakeBuf \/ CopyBuf \/ AioRead \/ AioDone
    \/ LoopEnds \/ Update
    \/ \E n \in 0 .. Pending(q \o out) : ChainWriter(n)

Spec == Init /\ [][Next]_vars

(****************************************************************************)
(* The response arrives whole: through buffers that are sent as they are,    *)
(* copied, read in pieces, aligned for directio and used again, the bytes on  *)
(* the wire are 1, 2, 3 ... with none twice and none left out; no buffer is   *)
(* filled while it is queued for sending; and there are never more than       *)
(* bufs.num of its own (output_buffers).                                      *)
(****************************************************************************)
OutputInTurn ==
    /\ wire = [i \in 1 .. Len(wire) |-> i]
    /\ ToSet(ctx.free) \cap (ToSet(q) \cup ToSet(out) \cup ToSet(ctx.busy)) = {}
    /\ ctx.buf # None => ctx.buf \notin ToSet(q) \cup ToSet(out) \cup ToSet(ctx.free)
    /\ Cardinality({i \in DOMAIN bufs : bufs[i].tag}) <= conf.num

(****************************************************************************)
(* A call that returns with input left has something coming that will run it  *)
(* again: bytes queued for the socket or a read in progress.  And NGX_OK      *)
(* means that all of it was sent.                                             *)
(****************************************************************************)
OutputGoesOn ==
    pc = "idle" =>
    /\ ctx.in # << >> => ctx.aio # "no" \/ q # << >>
    /\ last = "ok" => q = << >> /\ ctx.in = << >>
==============================================================================
