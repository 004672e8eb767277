----------------------------- MODULE MCNetwork -----------------------------
(***************************************************************************)
(* The parts of a worker that move bytes and wait for the network, one of  *)
(* them in each behaviour: the resolver, the choice of upstream servers,   *)
(* the event pipe, the event methods other than epoll, the queue of real   *)
(* time signals, the chain functions of the system, and the output chain.  *)
(* Each part keeps its own variables; those of the others are Off.         *)
(***************************************************************************)
EXTENDS Integers, Sequences, FiniteSets, TLC

CONSTANTS Ctxs,     \* contexts of the resolver, model values
          Requests  \* requests to an upstream, model values

VARIABLES part,
          r, now,
          conf, peers, req, running, mercy,
          mode, owner, p, mem, file, rready, wready, got, sent, pc,
          method, open, ev, list, kern, maxfd, alert,
          conn, fresh, queue, sigio, overflow, current, tested, batch, lost,
          os, whole, chain, in, call, ready, out, said,
          given, bufs, ctx, last, q, wire

Off == "off"

resolverVars == <<r>>
upstreamVars == <<peers, req, running, mercy>>
pipeVars == <<mode, owner, p, mem, file, rready, wready, got, sent>>
methodVars == <<method, open, ev, list, kern, maxfd, alert>>
rtsigVars == <<conn, fresh, queue, sigio, overflow, current, tested, batch, lost>>
sendVars == <<os, whole, chain, in, call, ready, said>>
outputVars == <<given, bufs, ctx, last, q, wire>>
vars == <<part, resolverVars, upstreamVars, pipeVars, methodVars, rtsigVars,
          sendVars, outputVars, now, conf, pc, out>>

----------------------------------------------------------------------------
\* Servers with weights, limits of failures, marks as down, backups, ip_hash,
\* a name in proxy_pass that has two addresses, and one server alone.
Server(w, m, d, b) == [weight |-> w, max_fails |-> m, down |-> d, backup |-> b]
Group(s, h, n, e, c) ==
  [servers |-> s, hash |-> h, resolved |-> n, next |-> e, cacheable |-> c]
Plain == Server(1, 1, FALSE, FALSE)
Groups ==
  { Group(<<Server(2, 1, FALSE, FALSE), Plain>>, <<>>, 0, {"error", "http_404"}, FALSE),
    Group(<<Server(1, 2, FALSE, FALSE), Server(1, 1, TRUE, FALSE),
            Server(1, 1, FALSE, TRUE)>>, <<>>, 0, {"timeout"}, TRUE),
    Group(<<Plain, Plain>>, <<10, 0, 1>>, 0, {"error"}, FALSE),
    Group(<<Plain>>, <<>>, 2, {"invalid_header"}, FALSE),
    Group(<<Plain>>, <<>>, 0, {"error"}, FALSE) }

\* Pipes that may not use a temporary file, that may, that use it in turns,
\* and that cache, with the head's rest in the first buffer or not.
Mode(c, m, y, n, o) ==
  [cacheable |-> c, max |-> m, cyclic |-> y, preread |-> n, owner |-> o]
PipeModes ==
  { Mode(FALSE, 0, FALSE, 1, TRUE), Mode(FALSE, 4, FALSE, 0, FALSE),
    Mode(FALSE, 4, TRUE, 2, TRUE), Mode(TRUE, 0, FALSE, 1, TRUE),
    Mode(TRUE, 0, FALSE, 0, FALSE) }

\* Chains of memory and file buffers that touch or do not, with empty ones.
Part(s, a, b) == [src |-> s, pos |-> a, last |-> b]
SendChains ==
  { <<Part("m", 0, 2), Part("none", 0, 0), Part("m", 2, 3), Part("f", 1, 6),
      Part("m", 10, 11)>>,
    <<Part("f", 0, 2), Part("f", 2, 5), Part("m", 3, 4), Part("m", 8, 10),
      Part("g", 0, 1)>>,
    <<Part("m", 0, 1), Part("m", 2, 3), Part("m", 4, 5), Part("m", 6, 7),
      Part("none", 0, 0)>> }

\* Responses of memory, temporary and file buffers, given in several chains.
Buf(m, f, d, a, z, n, l, c) ==
  [mem |-> m, infile |-> f, direct |-> d, from |-> a, to |-> z, fpos |-> n,
   last |-> l, lastInChain |-> c, cap |-> 0, tag |-> FALSE]
Responses ==
  { <<<<Buf("temp", FALSE, FALSE, 1, 3, 0, FALSE, FALSE),
        Buf("none", TRUE, FALSE, 3, 8, 0, FALSE, TRUE)>>,
      <<Buf("memory", FALSE, FALSE, 8, 9, 0, TRUE, TRUE)>>>>,
    <<<<Buf("none", TRUE, TRUE, 1, 9, 3, FALSE, FALSE)>>,
      <<Buf("temp", TRUE, FALSE, 9, 11, 5, FALSE, TRUE),
        Buf("none", FALSE, FALSE, 11, 11, 0, TRUE, FALSE)>>>>,
    <<<<Buf("memory", FALSE, FALSE, 1, 3, 0, FALSE, FALSE)>>,
      <<Buf("memory", FALSE, FALSE, 3, 6, 0, FALSE, TRUE)>>,
      <<Buf("none", FALSE, FALSE, 6, 6, 0, TRUE, FALSE)>>>> }
OutputConfs ==
  {[sendfile |-> s, needInMemory |-> m, needInTemp |-> t, alignment |-> 2,
    bufSize |-> 2, num |-> k, aio |-> a] :
      s \in BOOLEAN, m \in BOOLEAN, t \in BOOLEAN, k \in {1, 2}, a \in BOOLEAN}

R  == INSTANCE Resolver WITH
        Names <- {"a", "b", ".c"}, Addrs <- {"p"}, Malformed <- {".c"}, ResendTimeout <- 1,
        Expire <- 0, Valid <- 0, MaxRecursion <- 1, MaxTime <- 2
U  == INSTANCE Upstream WITH Confs <- Groups, MaxTime <- 2, Alert <- 6
EP == INSTANCE EventPipe WITH
        Bytes <- 6, BufSize <- 2, BufNum <- 2, BusySize <- 2, WriteSize <- 2,
        Modes <- PipeModes
EM == INSTANCE EventMethods WITH
        Fds <- {1, 2}, MaxChanges <- 3,
        Methods <- {"select", "poll", "devpoll", "kqueue", "eventport"}
RT == INSTANCE Rtsig WITH
        Connections <- 2, Files <- 3, Listening <- {0}, QueueLen <- 2,
        OverflowEvents <- 1, OverflowTest <- 1
SC == INSTANCE SendChain WITH
        Chains <- SendChains, Limits <- {0, 3}, IovMax <- 2, Page <- 4, NoLimit <- 40
OC == INSTANCE OutputChain WITH
        Confs <- OutputConfs, Scripts <- Responses, MaxOwn <- 20

----------------------------------------------------------------------------
NoResolver == r = Off
NoUpstream == peers = Off /\ req = Off /\ running = Off /\ mercy = Off
NoPipe == /\ mode = Off /\ owner = Off /\ p = Off /\ mem = Off /\ file = Off
          /\ rready = Off /\ wready = Off /\ got = Off /\ sent = Off
NoMethod == /\ method = Off /\ open = Off /\ ev = Off /\ list = Off /\ kern = Off
            /\ maxfd = Off /\ alert = Off
NoRtsig == /\ conn = Off /\ fresh = Off /\ queue = Off /\ sigio = Off
           /\ overflow = Off /\ current = Off /\ tested = Off /\ batch = Off
           /\ lost = Off
NoSend == /\ os = Off /\ whole = Off /\ chain = Off /\ in = Off /\ call = Off
          /\ ready = Off /\ said = Off
NoOutput == /\ given = Off /\ bufs = Off /\ ctx = Off /\ last = Off /\ q = Off
            /\ wire = Off

Init ==
  \/ /\ part = "resolver" /\ R!Init
     /\ NoUpstream /\ NoPipe /\ NoMethod /\ NoRtsig /\ NoSend /\ NoOutput
     /\ conf = Off /\ pc = Off /\ out = Off
  \/ /\ part = "upstream" /\ U!Init
     /\ NoResolver /\ NoPipe /\ NoMethod /\ NoRtsig /\ NoSend /\ NoOutput
     /\ pc = Off /\ out = Off
  \/ /\ part = "pipe" /\ EP!Init
     /\ NoResolver /\ NoUpstream /\ NoMethod /\ NoRtsig /\ NoSend /\ NoOutput
     /\ now = Off /\ conf = Off /\ out = Off
  \/ /\ part = "method" /\ EM!Init
     /\ NoResolver /\ NoUpstream /\ NoPipe /\ NoRtsig /\ NoSend /\ NoOutput
     /\ now = Off /\ conf = Off /\ pc = Off /\ out = Off
  \/ /\ part = "rtsig" /\ RT!Init
     /\ NoResolver /\ NoUpstream /\ NoPipe /\ NoMethod /\ NoSend /\ NoOutput
     /\ now = Off /\ conf = Off /\ pc = Off /\ out = Off
  \/ /\ part = "send" /\ SC!Init
     /\ NoResolver /\ NoUpstream /\ NoPipe /\ NoMethod /\ NoRtsig /\ NoOutput
     /\ now = Off /\ conf = Off /\ pc = Off
  \/ /\ part = "output" /\ OC!Init
     /\ NoResolver /\ NoUpstream /\ NoPipe /\ NoMethod /\ NoRtsig /\ NoSend
     /\ now = Off

ResolverStep ==
  /\ part = "resolver" /\ R!Next
  /\ UNCHANGED <<part, upstreamVars, pipeVars, methodVars, rtsigVars, sendVars,
                 outputVars, conf, pc, out>>
UpstreamStep ==
  /\ part = "upstream" /\ U!Next
  /\ UNCHANGED <<part, resolverVars, pipeVars, methodVars, rtsigVars, sendVars,
                 outputVars, pc, out>>
PipeStep ==
  /\ part = "pipe" /\ EP!Next
  /\ UNCHANGED <<part, resolverVars, upstreamVars, methodVars, rtsigVars, sendVars,
                 outputVars, now, conf, out>>
MethodStep ==
  /\ part = "method" /\ EM!Next
  /\ UNCHANGED <<part, resolverVars, upstreamVars, pipeVars, rtsigVars, sendVars,
                 outputVars, now, conf, pc, out>>
RtsigStep ==
  /\ part = "rtsig" /\ RT!Next
  /\ UNCHANGED <<part, resolverVars, upstreamVars, pipeVars, methodVars, sendVars,
                 outputVars, now, conf, pc, out>>
SendStep ==
  /\ part = "send" /\ SC!Next
  /\ UNCHANGED <<part, resolverVars, upstreamVars, pipeVars, methodVars, rtsigVars,
                 outputVars, now, conf, pc>>
OutputStep ==
  /\ part = "output" /\ OC!Next
  /\ UNCHANGED <<part, resolverVars, upstreamVars, pipeVars, methodVars, rtsigVars,
                 sendVars, now>>

Next == \/ ResolverStep \/ UpstreamStep \/ PipeStep \/ MethodStep \/ RtsigStep
        \/ SendStep \/ OutputStep

Spec == Init /\ [][Next]_vars

\* Nothing tells the contexts, or the requests, apart.
Symmetry == Permutations(Ctxs) \cup Permutations(Requests)

\* ngx_resolver.c: whatever is lost, late, repeated, cancelled or timed out, a
\* context that waits is in the list of the node it would be cancelled from,
\* that node is in the queue of its tree, and a timer will ask again.
ResolverAnswers ==
  part = "resolver" => R!WaitersLive /\ R!QueuesCover /\ R!NeverForgotten

\* ngx_http_upstream_next() and the peers' get() and free(): a request gives up
\* after a bounded number of attempts although other requests change the
\* failures and weights meanwhile, the choice stays within its table, and a
\* client gets one response.
UpstreamFair ==
  part = "upstream" => U!AttemptsBounded /\ U!ChoiceSane /\ U!OneResponse

\* ngx_http_upstream_get_round_robin_peer() forgets the failures when no peer
\* is live: a request that finds none never leaves a group where the next one
\* finds none either.
NotLockedOut == [][part = "upstream" => U!NotLockedOutStep]_vars

\* ngx_event_pipe(): buffers go from memory to the file and back, are split by
\* the socket and used again, and the client gets the body, each byte once and
\* in order; none is read into while it waits; all of it arrives and is in the
\* cache file at the end; and the handler never stops with work and a ready
\* socket.
PipeWhole ==
  part = "pipe" =>
    EP!SentInOrder /\ EP!NothingDropped /\ EP!FreeNotPending /\ EP!NoStall

\* The event methods but epoll: after any sequence of add, delete and close,
\* with changes still unwritten, the kernel comes to watch the active events
\* and no index leads to the entry of another connection.
MethodsAgree == part = "method" => EM!WatchesActive /\ EM!IndexesAgree

\* ngx_rtsig_process_overflow(): signals that were dropped are made up for by
\* polling, and no arrival is skipped by both while the queue overflows again;
\* but for descriptors from connection_n on, which are not polled, and those
\* whose poll() fails.
SignalsKept == part = "rtsig" => RT!NoneForgotten

\* The send_chain functions: short writes, EINTR, EAGAIN and limits in any
\* order leave on the wire a prefix of the chain and in the buffers the rest,
\* and the event waits if the kernel said to.
SendExact == part = "send" => SC!ChainSentInOrder /\ SC!EndsAsTold

\* ngx_output_chain(): the response arrives whole through buffers that are
\* copied, read asynchronously and reused, and a call that returns with input
\* left is called again.
OutputExact == part = "output" => OC!OutputInTurn /\ OC!OutputGoesOn
=============================================================================
