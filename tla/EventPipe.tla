------------------------------ MODULE EventPipe ------------------------------
(***************************************************************************)
(* The event pipe of event/ngx_event_pipe.c: the body of an upstream's     *)
(* response is read into a few raw buffers, passed on to the client when   *)
(* it takes it and else saved to a temporary file, which may be the file   *)
(* of the cache.  The copy input filter: every raw buffer has one shadow.  *)
(*                                                                         *)
(* The bytes of the response are numbered, the header is 0.  Buffers refer *)
(* to memory and to the file, so what is sent is what is there when it is  *)
(* sent.  One action is one turn of a loop of the handler; nothing else    *)
(* runs between the turns (pc).                                            *)
(***************************************************************************)
EXTENDS Integers, Sequences, FiniteSets, SequencesExt

CONSTANTS
  Bytes,       \* length of the body
  BufSize,     \* p->bufs.size, and the size of u->buffer
  BufNum,      \* p->bufs.num
  BusySize,    \* p->busy_size
  WriteSize,   \* p->temp_file_write_size
  Modes        \* what the pipe is set up for

(* A mode: cacheable; max, p->max_temp_file_size; cyclic, p->cyclic_temp_file;
   preread, the bytes that came with the header; owner, whether the request
   is the one whose output goes to the connection. *)

VARIABLES
  mode, owner,
  p,         \* the ngx_event_pipe_t
  mem,       \* the raw buffers: bytes and how far they are filled
  file,      \* the temporary file
  rready, wready,   \* the read event of upstream, the write event of downstream
                    \* (ready and not delayed)
  got,       \* bytes that were received
  sent,      \* what went to the client
  pc         \* where the handler is

vars == <<mode, owner, p, mem, file, rready, wready, got, sent, pc>>

Raws == 0..BufNum       \* 0 is u->buffer

Init ==
  /\ mode \in Modes
  /\ owner = mode.owner
  /\ p = [ free |-> <<>>,                  \* free_raw_bufs
           preread |-> TRUE,               \* preread_bufs
           allocated |-> 0,
           in |-> <<>>, out |-> <<>>, busy |-> <<>>,
           offset |-> 0,                   \* temp_file->offset
           to_file |-> mode.cacheable,     \* buf_to_file
           eof |-> FALSE, error |-> FALSE, \* upstream_eof, upstream_error
           down_error |-> FALSE, down_done |-> FALSE,
           read |-> FALSE, blocked |-> FALSE ]
  /\ mem = [r \in Raws |-> [data |-> [i \in 1..BufSize |-> -1], last |-> 0]]
  /\ file = <<>>
  /\ rready = FALSE /\ wready = TRUE
  /\ got = mode.preread
  /\ sent = <<>>
  /\ pc = "read"      \* ngx_http_upstream_send_response() starts it
----------------------------------------------------------------------------
(* Buffers: the bytes pos..last of raw, while memory is set; the bytes from
   fpos of the file, when in_file is set *)

Size(b) == b.last - b.pos + 1
Total(bufs) == FoldLeft(LAMBDA n, b : n + Size(b), 0, bufs)

ByteAt(b, i) ==
  IF b.memory THEN mem[b.raw].data[b.pos + i - 1]
  ELSE IF b.in_file /\ b.fpos + i <= Len(file) THEN file[b.fpos + i] ELSE -1

Content(b) == [i \in 1..Size(b) |-> ByteAt(b, i)]
Contents(bufs) == FlattenSeq([i \in DOMAIN bufs |-> Content(bufs[i])])

(* ngx_event_pipe_remove_shadow_links(): the shadow of r is no longer in
   memory, in whatever chain it is *)
Unlinked(bufs, r) ==
  [i \in DOMAIN bufs |->
     IF bufs[i].raw = r /\ bufs[i].linked
     THEN [bufs[i] EXCEPT !.memory = FALSE, !.recycled = FALSE, !.linked = FALSE]
     ELSE bufs[i]]

RemoveShadowLinks(s, r) ==
  [s EXCEPT !.in = Unlinked(@, r), !.out = Unlinked(@, r), !.busy = Unlinked(@, r)]

(* ngx_event_pipe_copy_input_filter() *)
InputFilter(s, r, last) ==
  IF last = 0 THEN s
  ELSE [s EXCEPT !.in = Append(@, [raw |-> r, pos |-> 1, last |-> last,
                                   memory |-> TRUE, in_file |-> FALSE, fpos |-> 0,
                                   recycled |-> TRUE, linked |-> TRUE])]

(* ngx_event_pipe_add_free_buf(): after a partially filled one *)
AddFree(s, r) ==
  [s EXCEPT !.free =
     IF @ = <<>> \/ mem[Head(@)].last = 0 THEN <<r>> \o @
     ELSE <<Head(@), r>> \o Tail(@)]

(* raw buffers that were given back are empty *)
Emptied(m, rs) == [r \in Raws |-> IF r \in rs THEN [m[r] EXCEPT !.last = 0] ELSE m[r]]
----------------------------------------------------------------------------
(* ngx_event_pipe_write_chain_to_temp_file(): how many buffers of p->in go,
   what becomes of the pipe, the file and the raw buffers *)
ToFile ==
  IF mode.cacheable THEN Len(p.in)
  ELSE LET fits == {n \in 1..Len(p.in) : LET t == Total(SubSeq(p.in, 1, n)) IN
                      t <= WriteSize /\ p.offset + t <= mode.max}
       IN IF fits = {} THEN 0 ELSE CHOOSE n \in fits : \A m \in fits : m <= n

Written(f, at, bytes) ==
  [i \in 1..(IF Len(f) > at + Len(bytes) THEN Len(f) ELSE at + Len(bytes)) |->
     IF i > at /\ i <= at + Len(bytes) THEN bytes[i - at] ELSE f[i]]

(* a mutant: the offset is that of the buffers without the header *)
WriteToTempFileShort(n) ==
  LET bufs == SubSeq(p.in, 1, n)
      InFile(i) == [bufs[i] EXCEPT !.in_file = TRUE, !.memory = FALSE,
                      !.recycled = FALSE, !.linked = FALSE,
                      !.fpos = p.offset + Total(SubSeq(bufs, 1, i - 1))]
  IN [ file |-> Written(file, p.offset, (IF p.to_file THEN <<0>> ELSE <<>>) \o Contents(bufs)),
       p |-> [p EXCEPT !.in = SubSeq(@, n + 1, Len(@)),
                       !.out = @ \o [i \in 1..n |-> InFile(i)],
                       !.to_file = FALSE,
                       !.offset = @ + Total(bufs),
                       !.free = @ \o [i \in 1..n |-> bufs[i].raw]],
       mem |-> Emptied(mem, {bufs[i].raw : i \in 1..n}) ]

WriteToTempFile(n) ==
  LET bufs == SubSeq(p.in, 1, n)
      head == IF p.to_file THEN <<0>> ELSE <<>>
      base == IF p.to_file THEN 1 ELSE p.offset
      InFile(i) == [bufs[i] EXCEPT !.in_file = TRUE, !.memory = FALSE,
                      !.recycled = FALSE, !.linked = FALSE,
                      !.fpos = base + Total(SubSeq(bufs, 1, i - 1))]
  IN [ file |-> Written(file, p.offset, head \o Contents(bufs)),
       p |-> [p EXCEPT !.in = SubSeq(@, n + 1, Len(@)),
                       !.out = @ \o [i \in 1..n |-> InFile(i)],
                       !.to_file = FALSE,
                       !.offset = base + Total(bufs),
                       !.free = @ \o [i \in 1..n |-> bufs[i].raw]],
       mem |-> Emptied(mem, {bufs[i].raw : i \in 1..n}) ]

----------------------------------------------------------------------------
(* ngx_event_pipe_read_upstream() *)

Over == p.eof \/ p.error

(* n bytes come into a chain of raw buffers: the full ones go through the
   input filter, the first that is not full heads the free ones again *)
Room(r) == BufSize - mem[r].last

Fill(s0, chain, n) ==
  LET before[i \in 0..Len(chain)] ==
        IF i = 0 THEN 0 ELSE before[i - 1] + Room(chain[i])
      full == {i \in DOMAIN chain : before[i] <= n}
      nfull == IF full = {} THEN 0 ELSE CHOOSE i \in full : \A j \in full : j <= i
      Put(m, r, at) ==   \* the bytes of r when its room starts at byte at
        LET k == IF n - at >= Room(r) THEN Room(r) ELSE IF n > at THEN n - at ELSE 0
        IN [data |-> [i \in 1..BufSize |->
                        IF i > m[r].last /\ i <= m[r].last + k
                        THEN got + at + (i - m[r].last) ELSE m[r].data[i]],
            last |-> m[r].last + k]
      Index(r) == CHOOSE i \in DOMAIN chain : chain[i] = r
      touched == {i \in DOMAIN chain : before[i - 1] < n}
      s1 == FoldLeft(LAMBDA s, i : IF i \in touched THEN RemoveShadowLinks(s, chain[i]) ELSE s,
                     s0, [i \in DOMAIN chain |-> i])
  IN [ mem |-> [r \in Raws |-> IF r \in Range(chain) THEN Put(mem, r, before[Index(r) - 1])
                               ELSE mem[r]],
       p |-> [FoldLeft(LAMBDA s, i : InputFilter(s, chain[i], BufSize), s1,
                       [i \in 1..nfull |-> i])
              EXCEPT !.free = SubSeq(chain, nfull + 1, Len(chain))] ]

Leave == UNCHANGED <<mode, owner, sent, wready>>

(* the buffers that came with the header *)
ReadPreread ==
  /\ pc = "read" /\ ~Over /\ p.preread
  /\ LET m0 == [p EXCEPT !.preread = FALSE, !.read = @ \/ mode.preread > 0]
         f == Fill(m0, <<0>>, mode.preread)
     IN /\ p' = f.p
        /\ mem' = [f.mem EXCEPT ![0].data =
                     [i \in 1..BufSize |-> IF i <= mode.preread THEN i ELSE -1]]
  /\ UNCHANGED <<file, rready, got, pc>> /\ Leave

(* the buffers to read in: free ones, a new one, or those that saving to the
   file gives back *)
CanRead == pc = "read" /\ ~Over /\ ~p.preread /\ rready

NoBufs == p.free = <<>> /\ p.allocated = BufNum

ReadAllocate ==
  /\ CanRead /\ p.free = <<>> /\ p.allocated < BufNum
  /\ p' = [p EXCEPT !.allocated = @ + 1, !.free = <<p.allocated + 1>>]
  /\ mem' = [mem EXCEPT ![p.allocated + 1].last = 0]
  /\ UNCHANGED <<file, rready, got, pc>> /\ Leave

ReadBlocked ==
  /\ CanRead /\ NoBufs /\ ~mode.cacheable /\ owner /\ wready
  /\ p' = [p EXCEPT !.blocked = TRUE]
  /\ pc' = "read_end"
  /\ UNCHANGED <<mem, file, rready, got>> /\ Leave

Saves == mode.cacheable \/ p.offset < mode.max

ReadSave ==
  /\ CanRead /\ NoBufs /\ (mode.cacheable \/ ~(owner /\ wready)) /\ Saves /\ ToFile > 0
  /\ LET w == WriteToTempFile(ToFile) IN
     /\ p' = w.p /\ file' = w.file /\ mem' = w.mem
  /\ UNCHANGED <<rready, got, pc>> /\ Leave

ReadNoBufs ==
  /\ CanRead /\ NoBufs /\ (mode.cacheable \/ ~(owner /\ wready))
  /\ ~Saves \/ ToFile = 0
  /\ pc' = "read_end"
  /\ UNCHANGED <<p, mem, file, rready, got>> /\ Leave

Receive(n) ==
  /\ CanRead /\ p.free # <<>>
  /\ n <= Bytes - got
  /\ n <= FoldLeft(LAMBDA t, r : t + Room(r), 0, p.free)
  /\ LET f == Fill([p EXCEPT !.read = TRUE], p.free, n) IN p' = f.p /\ mem' = f.mem
  /\ got' = got + n
  /\ rready' \in {TRUE, FALSE}
  /\ UNCHANGED <<file, pc>> /\ Leave

ReceiveAgain ==
  /\ CanRead /\ p.free # <<>> /\ got < Bytes
  /\ rready' = FALSE
  /\ UNCHANGED <<p, mem, file, got, pc>> /\ Leave

ReceiveEof ==
  /\ CanRead /\ p.free # <<>> /\ got = Bytes
  /\ p' = [p EXCEPT !.read = TRUE, !.eof = TRUE]
  /\ rready' = FALSE
  /\ UNCHANGED <<mem, file, got, pc>> /\ Leave

(* the partially filled buffer is left behind *)
ReceiveError ==
  /\ CanRead /\ p.free # <<>>
  /\ p' = [p EXCEPT !.error = TRUE]
  /\ pc' = "read_failed" /\ rready' = FALSE
  /\ UNCHANGED <<mem, file, got>> /\ Leave

ReadStop ==
  /\ pc = "read"
  /\ Over \/ (~p.preread /\ ~rready)
  /\ pc' = "read_end"
  /\ UNCHANGED <<p, mem, file, rready, got>> /\ Leave

(* after the loop: the last buffer, and the cache *)
LastBuf(s) ==
  IF Over /\ s.free # <<>> /\ ~s.down_done
  THEN [InputFilter(s, Head(s.free), mem[Head(s.free)].last) EXCEPT !.free = Tail(@)]
  ELSE s

ReadEnd ==
  /\ pc = "read_end"
  /\ p' = LastBuf(p)
  /\ pc' = IF mode.cacheable /\ p'.in # <<>> THEN "save" ELSE "loop"
  /\ UNCHANGED <<mem, file, rready, got>> /\ Leave

Save ==
  /\ pc = "save"
  /\ LET w == WriteToTempFile(ToFile) IN
     /\ p' = w.p /\ file' = w.file /\ mem' = w.mem
  /\ pc' = "loop"
  /\ UNCHANGED <<rready, got>> /\ Leave
----------------------------------------------------------------------------
(* ngx_event_pipe_write_to_downstream() *)

(* ngx_event_pipe_drain_chains() *)
Drain(s) ==
  LET all == SelectSeq(s.busy \o s.out \o s.in, LAMBDA b : b.linked)
      s1 == [s EXCEPT !.busy = <<>>, !.out = <<>>, !.in = <<>>, !.down_error = TRUE]
  IN [ p |-> FoldLeft(LAMBDA acc, b : AddFree(acc, b.raw), s1, all),
       mem |-> Emptied(mem, {all[i].raw : i \in DOMAIN all}) ]

Keep == UNCHANGED <<mode, owner, rready, got>>

WriteDrains ==
  /\ pc = "write" /\ p.down_error
  /\ LET d == Drain(p) IN p' = d.p /\ mem' = d.mem
  /\ pc' = "read"
  /\ UNCHANGED <<file, wready, sent>> /\ Keep

(* what the output filters take: k bytes of all that is pending go out; when
   that is not everything the socket is full *)
Advance(b, k) == [b EXCEPT !.pos = @ + k, !.fpos = IF b.in_file THEN @ + k ELSE @]

Remaining(bufs, k) ==
  LET upto[i \in 0..Len(bufs)] == IF i = 0 THEN 0 ELSE upto[i - 1] + Size(bufs[i])
      gone == Cardinality({i \in DOMAIN bufs : upto[i] <= k})
  IN [ gone |-> SubSeq(bufs, 1, gone),
       left |-> [i \in 1..(Len(bufs) - gone) |->
                   IF i = 1 THEN Advance(bufs[gone + 1], k - upto[gone])
                   ELSE bufs[gone + i]] ]

(* upstream is at its end: everything goes to the filters *)
WriteAll(k) ==
  LET all == p.busy \o p.out \o p.in IN
  /\ pc = "write" /\ ~p.down_error /\ Over
  /\ k <= Total(all) /\ (k > 0 => wready /\ owner)
  /\ sent' = sent \o SubSeq(Contents(all), 1, k)
  /\ p' = [p EXCEPT !.busy = [i \in DOMAIN Remaining(all, k).left |->
                                [Remaining(all, k).left[i] EXCEPT !.recycled = FALSE]],
                    !.out = <<>>, !.in = <<>>,
                    !.to_file = FALSE, !.down_done = TRUE]
  /\ file' = IF mode.cacheable /\ p.to_file THEN Written(file, p.offset, <<0>>) ELSE file
  /\ wready' = (wready /\ k = Total(all))
  /\ pc' = "read"
  /\ UNCHANGED mem /\ Keep

(* bsize, and the buffers that go: those of p->out first *)
Busy(bufs) ==
  FoldLeft(LAMBDA n, b : n + BufSize, 0, SelectSeq(bufs, LAMBDA b : b.recycled))

Gather(cand, bsize) ==
  FoldLeft(LAMBDA a, b :
             IF a.flush \/ (b.recycled /\ a.bsize + Size(b) > BusySize)
             THEN [a EXCEPT !.flush = TRUE]
             ELSE [a EXCEPT !.n = @ + 1,
                            !.bsize = IF b.recycled THEN @ + Size(b) ELSE @],
           [n |-> 0, bsize |-> bsize, flush |-> FALSE], cand)

Candidates == p.out \o (IF mode.cacheable THEN <<>> ELSE p.in)

Chosen ==
  IF Busy(p.busy) >= BusySize THEN [n |-> 0, bsize |-> 0, flush |-> TRUE]
  ELSE Gather(Candidates, Busy(p.busy))

CanWrite == pc = "write" /\ ~p.down_error /\ ~Over /\ owner /\ wready

(* the buffers that are sent: their raw buffers are free again; a cyclic file
   starts over when its last buffer is sent *)
FreeSent(s, gone) ==
  LET one(acc, b) ==
        IF b.in_file
        THEN IF ~mode.cacheable /\ mode.cyclic
                /\ b.fpos + Size(b) = acc.offset THEN [acc EXCEPT !.offset = 0] ELSE acc
        ELSE IF b.linked THEN AddFree(acc, b.raw) ELSE acc
  IN FoldLeft(one, s, gone)

WriteSome(k) ==
  LET c    == Chosen
      nout == IF c.n < Len(p.out) THEN c.n ELSE Len(p.out)
      all  == p.busy \o SubSeq(Candidates, 1, c.n)
      rem  == Remaining(all, k)
      s    == [p EXCEPT !.busy = rem.left,
                        !.out = SubSeq(@, nout + 1, Len(@)),
                        !.in = IF mode.cacheable THEN @
                               ELSE SubSeq(@, c.n - nout + 1, Len(@))]
      memory == SelectSeq(rem.gone, LAMBDA b : ~b.in_file /\ b.linked)
  IN
  /\ CanWrite /\ (c.n > 0 \/ c.flush)
  /\ k <= Total(all)
  /\ sent' = sent \o SubSeq(Contents(all), 1, k)
  /\ p' = FreeSent(s, rem.gone)
  /\ mem' = Emptied(mem, {memory[i].raw : i \in DOMAIN memory})
  /\ wready' = (k = Total(all))
  /\ UNCHANGED <<file, pc>> /\ Keep

WriteError ==
  /\ pc = "write" /\ ~p.down_error
  /\ Over \/ (owner /\ wready /\ (Chosen.n > 0 \/ Chosen.flush))
  /\ LET d == Drain(p) IN p' = d.p /\ mem' = d.mem
  /\ pc' = "read"
  /\ UNCHANGED <<file, wready, sent>> /\ Keep

WriteStop ==
  /\ pc = "write" /\ ~p.down_error /\ ~Over
  /\ ~owner \/ ~wready \/ (Chosen.n = 0 /\ ~Chosen.flush)
  /\ pc' = "read"
  /\ UNCHANGED <<p, mem, file, wready, sent>> /\ Keep
----------------------------------------------------------------------------
(* ngx_event_pipe(), and ngx_http_upstream_process_request() after it *)
Loop ==
  /\ pc \in {"loop", "read_failed"}
  /\ LET more == p.read \/ p.blocked IN
     /\ pc' = IF more THEN "write"
              ELSE IF Over \/ (p.down_error /\ ~mode.cacheable) THEN "closed" ELSE "idle"
     /\ p' = [p EXCEPT !.read = FALSE, !.blocked = FALSE]
  /\ UNCHANGED <<mode, owner, mem, file, rready, wready, got, sent>>

UpstreamEvent ==
  /\ pc = "idle" /\ ~rready
  /\ rready' = TRUE /\ pc' = "read"
  /\ UNCHANGED <<mode, owner, p, mem, file, wready, got, sent>>

DownstreamEvent ==
  /\ pc = "idle" /\ ~wready
  /\ wready' = TRUE /\ pc' = "write"
  /\ UNCHANGED <<mode, owner, p, mem, file, rready, got, sent>>

(* the requests before this one are finished and its handler is run *)
BecomesOwner ==
  /\ pc \in {"idle", "closed"} /\ ~owner
  /\ owner' = TRUE
  /\ pc' = IF pc = "idle" THEN "write" ELSE pc
  /\ UNCHANGED <<mode, p, mem, file, rready, wready, got, sent>>

(* what is left in the filters after the upstream is closed *)
Rest(k) ==
  /\ pc = "closed" /\ p.down_done /\ owner /\ k <= Total(p.busy) /\ k > 0
  /\ sent' = sent \o SubSeq(Contents(p.busy), 1, k)
  /\ p' = [p EXCEPT !.busy = Remaining(@, k).left]
  /\ UNCHANGED <<mode, owner, mem, file, rready, wready, got, pc>>

Next ==
  \/ ReadPreread \/ ReadAllocate \/ ReadBlocked \/ ReadSave \/ ReadNoBufs
  \/ ReceiveAgain \/ ReceiveEof \/ ReceiveError \/ ReadStop \/ ReadEnd \/ Save
  \/ \E n \in 1..Bytes : Receive(n)
  \/ \E k \in 0..Bytes : WriteAll(k) \/ WriteSome(k) \/ Rest(k)
  \/ WriteDrains \/ WriteError \/ WriteStop
  \/ Loop \/ UpstreamEvent \/ DownstreamEvent \/ BecomesOwner

Spec == Init /\ [][Next]_vars
----------------------------------------------------------------------------
(* Properties *)

(* What the client gets is the body from its first byte on, in order, nothing
   twice and nothing overwritten in memory or in the file before it is sent. *)
SentInOrder == sent = [i \in 1..Len(sent) |-> i]

(* At the end all that was received is sent or in the filters, and the file of
   the cache is the header and the body. *)
NothingDropped ==
  /\ p.down_done /\ p.eof /\ ~p.down_error =>
       sent \o Contents(p.busy) = [i \in 1..Bytes |-> i]
  /\ pc = "closed" /\ p.eof /\ mode.cacheable =>
       file = [i \in 1..(Bytes + 1) |-> i - 1]

(* A raw buffer that can be read into is not one that is still to be sent. *)
FreeNotPending ==
  \A i \in DOMAIN p.free : \A b \in Range(p.in \o p.out \o p.busy) :
    b.raw = p.free[i] => ~b.memory

(* When the handler returns, one of the two sides will call it again: if there
   is something to read, it is because the client's socket is full (or another
   request's turn), and nothing waits for a socket that is ready. *)
NoStall ==
  pc = "idle" =>
    /\ rready => ~wready \/ ~owner
    /\ owner /\ wready /\ ~mode.cacheable => p.in = <<>> /\ p.out = <<>> /\ p.busy = <<>>
==============================================================================
