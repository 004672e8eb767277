------------------------------ MODULE SendChain ------------------------------
(****************************************************************************)
(* c->send_chain(): a chain of buffers is written to a socket by the system  *)
(* calls of five systems (os/unix: ngx_writev_chain, the sendfile chains of  *)
(* Linux, FreeBSD and Mac OS X, the sendfilev chain of Solaris).  A call     *)
(* works in rounds.  A round gathers vectors of memory, a piece of a file    *)
(* and what follows it, joins neighbours, stops at the limit, makes one      *)
(* system call and moves the buffers by what the kernel took.                *)
(*                                                                           *)
(* A buffer is a range of bytes of memory ("m") or of a file, or special     *)
(* (no bytes).  A byte is known by where it is.                              *)
(****************************************************************************)
EXTENDS Integers, Sequences, FiniteSets, SequencesExt

CONSTANTS Chains,     \* the chains that are sent
          Limits,     \* limits of a call; 0 for none
          IovMax,     \* IOV_MAX
          Page,       \* ngx_pagesize
          NoLimit     \* stands for the limit of no limit: above every chain

VARIABLES os,         \* whose chain function
          whole,      \* ghost: the chain as it was first given
          chain, in,  \* the buffers and the first that is not sent
          call,       \* a call in progress: limit, send, complete; or idle
          ready,      \* wev->ready
          out,        \* bytes the kernel took
          said        \* what the last system call said

vars == <<os, whole, chain, in, call, ready, out, said>>

Systems == {"writev", "linux", "freebsd", "darwin", "solaris"}

Special(b) == b.src = "none"
InFile(b) == b.src \notin {"m", "none"}
Size(b) == b.last - b.pos

Bytes(v) == [i \in 1 .. v.len |-> <<v.src, v.base + i - 1>>]
Content(bufs) == FlattenSeq([i \in DOMAIN bufs |->
                     Bytes([src |-> bufs[i].src, base |-> bufs[i].pos, len |-> Size(bufs[i])])])

Minimum(a, b) == IF a < b THEN a ELSE b

\* How much of a buffer goes under the limit; a file is cut at the end of a page.
Fit(b, send, limit) ==
    LET size == limit - send
        aligned == ((b.pos + size + Page - 1) \div Page) * Page
    IN  IF send + Size(b) <= limit THEN Size(b)
        ELSE IF InFile(b) /\ aligned <= b.last THEN aligned - b.pos ELSE size

\* A vector more, or the last one longer when the buffer starts where it ended.
PushVector(vecs, b, size, joins) ==
    IF joins THEN [vecs EXCEPT ![Len(vecs)].len = @ + size]
    ELSE Append(vecs, [src |-> b.src, base |-> b.pos, len |-> size])

Adjacent(vecs, b) ==
    vecs # << >> /\ Last(vecs).src = b.src /\ Last(vecs).base + Last(vecs).len = b.pos

Start(send) == [stage |-> "head", head |-> << >>, file |-> << >>, tail |-> << >>, send |-> send]

\* Memory before a file.
HeadStep(g, b, limit) ==
    LET size == Fit(b, g.send, limit)
    IN  [g EXCEPT !.head = PushVector(@, b, size, Adjacent(@, b)), !.send = @ + size]

\* Pieces of one file that follow each other are one piece.
FileStep(g, b, limit) ==
    LET size == Fit(b, g.send, limit)
    IN  [g EXCEPT !.file = PushVector(@, b, size, @ # << >>), !.send = @ + size, !.stage = "file"]

\* Memory behind it.
TailStep(g, b, limit) ==
    LET size == Fit(b, g.send, limit)
    IN  [g EXCEPT !.tail = PushVector(@, b, size, Adjacent(@, b)), !.send = @ + size, !.stage = "tail"]

Done(g) == [g EXCEPT !.stage = "done"]

\* ngx_writev_chain: vectors of memory.
WritevStep(g, b, limit) ==
    IF Len(g.head) < IovMax /\ g.send < limit
    THEN IF Special(b) THEN g ELSE HeadStep(g, b, limit)
    ELSE Done(g)

\* The sendfile chains: memory, a file when memory does not go first, memory again where the
\* system's call takes it.  A buffer is looked at in each stage in turn.
TailTurn(g, b, limit, takes) ==
    IF ~takes \/ Len(g.head) >= IovMax \/ g.send >= limit THEN Done(g)
    ELSE IF Special(b) THEN [g EXCEPT !.stage = "tail"]
    ELSE IF InFile(b) THEN Done(g)
    ELSE TailStep(g, b, limit)

SendfileStep(g, b, limit, alone, takes) ==
    CASE g.stage = "head" ->
           IF Len(g.head) < IovMax /\ g.send < limit /\ Special(b) THEN g
           ELSE IF Len(g.head) < IovMax /\ g.send < limit /\ ~InFile(b) THEN HeadStep(g, b, limit)
           ELSE IF InFile(b) /\ g.send < limit /\ (alone => g.head = << >>) THEN FileStep(g, b, limit)
           ELSE Done(g)
      [] g.stage = "file" ->
           IF InFile(b) /\ g.send < limit /\ Adjacent(g.file, b) THEN FileStep(g, b, limit)
           ELSE TailTurn(g, b, limit, takes)
      [] g.stage = "tail" -> TailTurn(g, b, limit, takes)
      [] OTHER -> g

\* Linux: either memory or a file.  FreeBSD: both and more memory.  Mac OS X: memory behind the
\* file only when there is none before it.
LinuxStep(g, b, limit) == SendfileStep(g, b, limit, TRUE, FALSE)
FreebsdStep(g, b, limit) == SendfileStep(g, b, limit, FALSE, TRUE)
DarwinStep(g, b, limit) == SendfileStep(g, b, limit, FALSE, g.head = << >>)

\* ngx_solaris_sendfilev_chain: one vector of both.
SolarisStep(g, b, limit) ==
    IF Len(g.head) < IovMax /\ g.send < limit
    THEN IF Special(b) THEN g ELSE HeadStep(g, b, limit)
    ELSE Done(g)

Gather(limit, send) ==
    FoldLeft(LAMBDA g, b : CASE os = "writev" -> WritevStep(g, b, limit)
                             [] os = "linux" -> LinuxStep(g, b, limit)
                             [] os = "freebsd" -> FreebsdStep(g, b, limit)
                             [] os = "darwin" -> DarwinStep(g, b, limit)
                             [] OTHER -> SolarisStep(g, b, limit),
             Start(send), SubSeq(chain, in, Len(chain)))

Taken(g) == FlattenSeq([i \in DOMAIN (g.head \o g.file \o g.tail) |-> Bytes((g.head \o g.file \o g.tail)[i])])

\* A mistaken form: a buffer of which a part was taken is done.
MoveWhole(n) ==
    FoldLeft(LAMBDA a, i : LET b == chain[i]
                           IN  IF a.stop \/ Special(b) THEN a
                               ELSE IF a.n = 0 THEN [a EXCEPT !.stop = TRUE, !.in = i]
                               ELSE [a EXCEPT !.n = IF @ < Size(b) THEN 0 ELSE @ - Size(b),
                                              !.chain[i].pos = b.last],
             [n |-> n, chain |-> chain, in |-> Len(chain) + 1, stop |-> FALSE],
             [k \in 1 .. (Len(chain) + 1 - in) |-> in + k - 1])

\* The buffers moved by what was taken, and the first that has more.
Move(n) ==
    FoldLeft(LAMBDA a, i : LET b == chain[i]
                           IN  IF a.stop \/ Special(b) THEN a
                               ELSE IF a.n = 0 THEN [a EXCEPT !.stop = TRUE, !.in = i]
                               ELSE IF a.n >= Size(b)
                               THEN [a EXCEPT !.n = @ - Size(b), !.chain[i].pos = b.last]
                               ELSE [a EXCEPT !.chain[i].pos = b.pos + a.n, !.n = 0, !.stop = TRUE, !.in = i],
             [n |-> n, chain |-> chain, in |-> Len(chain) + 1, stop |-> FALSE],
             [k \in 1 .. (Len(chain) + 1 - in) |-> in + k - 1])

Idle == [limit |-> 0, send |-> 0, complete |-> FALSE, sent |-> 0]

Init ==
    /\ os \in Systems
    /\ chain \in Chains
    /\ os = "writev" => \A i \in DOMAIN chain : ~InFile(chain[i])
    /\ whole = chain
    /\ in = 1 /\ call = Idle /\ ready = TRUE /\ out = << >> /\ said = "nothing"

\* The caller sends what is left.  Without ready the chain is returned as it is.
SendChainCall(limit) ==
    /\ call = Idle /\ ready /\ in <= Len(chain) /\ said \notin {"error", "toEof"}
    /\ call' = [limit |-> IF limit = 0 THEN NoLimit ELSE limit, send |-> 0, complete |-> FALSE, sent |-> 0]
    /\ said' = "nothing"
    /\ UNCHANGED <<os, whole, chain, in, ready, out>>

\* What the kernel may say of a call for total bytes: how many it took, and why no more.  Linux and
\* writev report bytes or an error, the other calls may report both.
Outcomes(total) ==
    IF total = 0 THEN {<<0, "ok">>}
    ELSE {<<n, "ok">> : n \in 1 .. total} \cup {<<0, e>> : e \in {"again", "intr"}}
    \cup (IF os \in {"freebsd", "darwin", "solaris"}
          THEN {<<n, e>> : n \in 1 .. (total - 1), e \in {"again", "intr"}} ELSE {})

\* complete is reset in each round by three of the five.
Complete(n, send, prev) == (send - prev = n) \/ (os \in {"writev", "solaris"} /\ call.complete)

\* sendfile() of FreeBSD may say EAGAIN although it has taken all.
EagainStops(o, g) == os = "freebsd" /\ o[2] = "again" /\ g.file # << >>

ZeroFile(g) == g.file # << >> /\ g.file[1].len = 0

Round(o) ==
    LET g == Gather(call.limit, call.send)
        m == Move(o[1])
        complete == Complete(o[1], g.send, call.send)
        stops == EagainStops(o, g)
        goesOn == /\ ~stops
                  /\ o[2] = "intr" \/ (complete /\ g.send < call.limit /\ m.in <= Len(chain))
    IN  /\ call # Idle
        /\ ~ZeroFile(g)
        /\ o \in Outcomes(Len(Taken(g)))
        /\ out' = out \o SubSeq(Taken(g), 1, o[1])
        /\ chain' = m.chain
        /\ said' = o[2]
        /\ IF goesOn
           THEN /\ call' = [call EXCEPT !.send = Minimum(g.send, NoLimit), !.complete = complete, !.sent = @ + o[1]]
                /\ in' = IF o[2] = "intr" THEN in ELSE m.in
                /\ ready' = ready
           ELSE /\ call' = Idle
                /\ in' = m.in
                /\ ready' = (~stops /\ complete)
        /\ UNCHANGED <<os, whole>>

\* Any other error, and a file that FreeBSD and Mac OS X find shorter than it was: NGX_CHAIN_ERROR.
ChainError ==
    /\ call # Idle
    /\ call' = Idle /\ said' = "error"
    /\ UNCHANGED <<os, whole, chain, in, ready, out>>

\* A round that follows a call that was interrupted after it had taken bytes starts at the same
\* buffer, which may be empty by now.  A piece of a file of no bytes is an error on Linux; to the
\* calls of FreeBSD and Mac OS X it means the rest of the file, and what follows is not modelled.
RoundOfEmptyFile ==
    /\ call # Idle
    /\ ZeroFile(Gather(call.limit, call.send))
    /\ call' = Idle
    /\ said' = IF os = "linux" THEN "error" ELSE "toEof"
    /\ UNCHANGED <<os, whole, chain, in, ready, out>>

Writable ==
    /\ ~ready
    /\ ready' = TRUE
    /\ said' = "nothing"
    /\ UNCHANGED <<os, whole, chain, in, call, out>>

Next ==
    \/ \E l \in Limits : SendChainCall(l)
    \/ \E o \in (0 .. Len(Content(whole))) \X {"ok", "again", "intr"} : Round(o)
    \/ RoundOfEmptyFile
    \/ ChainError
    \/ Writable

Spec == Init /\ [][Next]_vars

(****************************************************************************)
(* Whatever the kernel takes of each round and however a call is             *)
(* interrupted, the bytes on the wire are the chain's from its start, each    *)
(* once and in order, and what the buffers still hold is exactly the rest;    *)
(* a call sends no more than its limit, rounded up to a page of a file.       *)
(****************************************************************************)
ChainSentInOrder ==
    /\ out \o Content(SubSeq(chain, in, Len(chain))) = Content(whole)
    /\ call # Idle => call.sent < call.limit + Page

(****************************************************************************)
(* A call ends with buffers left only when the kernel took no more, and then  *)
(* the event waits (wev->ready = 0), or at the limit; and it does not ask a    *)
(* kernel again that said EAGAIN.  (The vectors of ngx_writev_chain and the    *)
(* Solaris chain keep "complete" from an earlier round: a later EAGAIN of the  *)
(* same call is not seen.)                                                    *)
(****************************************************************************)
EndsAsTold ==
    /\ (call # Idle /\ said = "again") => call.complete /\ os \in {"writev", "solaris"}
    /\ (call = Idle /\ said = "again") => ~ready \/ os \in {"writev", "solaris"}
==============================================================================
