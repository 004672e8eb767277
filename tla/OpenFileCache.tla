---------------------------- MODULE OpenFileCache ----------------------------
(****************************************************************************)
(* The open file cache of a worker (core/ngx_open_file_cache.c): entries of *)
(* names with an open descriptor, a directory or an error, found through a   *)
(* tree, ordered by use in a queue, shared by the requests that hold them,   *)
(* revalidated after of->valid seconds, and dropped when the cache is full   *)
(* or they are inactive.  An entry that is replaced while requests hold it   *)
(* leaves the tree and lives on until the last of them ends.                 *)
(*                                                                           *)
(* The tree is the set of the entries in it: its comparison function only    *)
(* orders them.  An entry and a descriptor are numbers, the smallest that is *)
(* free, so that memory and descriptors are used again as the system does.   *)
(****************************************************************************)
EXTENDS Integers, Sequences, FiniteSets, SequencesExt

CONSTANTS Names,      \* the names of files
          Uniqs,      \* inode numbers, numbers above 0
          Requests,   \* the requests that open files
          Ofs,        \* what a request may ask: ngx_open_file_info_t
          CacheMax, Inactive,   \* open_file_cache max=, inactive=
          MaxFd,      \* the descriptors of the process
          MaxUses,    \* where the count of uses stops: no min_uses is above it
          MaxNow      \* bound on the clock

VARIABLES fs,         \* what a name is: 0 (absent), "dir" as -1, or an inode
          left,       \* when an inode left its name, or -1
          o,          \* the cache and the descriptors
          held,       \* what each request has opened
          now

vars == <<fs, left, o, held, now>>

Dir == -1
NoFd == 0
Ids == 1 .. (Cardinality(Requests) + CacheMax + 1)

Smallest(S) == CHOOSE x \in S : \A y \in S : x <= y

NewFile(name) ==
    [name |-> name, fd |-> NoFd, uniq |-> 0, err |-> FALSE, dir |-> FALSE, uses |-> 1, count |-> 0,
     close |-> FALSE, event |-> FALSE, useEvent |-> FALSE, created |-> 0, accessed |-> 0]

\* files: the entries that are allocated; fds: what each open descriptor is open on.
CacheInit ==
    [files |-> << >>, tree |-> {}, queue |-> << >>, current |-> 0, fds |-> << >>, stray |-> FALSE,
     gone |-> FALSE]

Free(q, f) == [q EXCEPT !.files = [i \in DOMAIN q.files \ {f} |-> q.files[i]]]

CloseFd(q, fd) == [q EXCEPT !.fds = [d \in DOMAIN q.fds \ {fd} |-> q.fds[d]]]

QueueRemove(q, f) == [q EXCEPT !.queue = SelectSeq(@, LAMBDA g : g # f)]

QueueHead(q, f) == [q EXCEPT !.queue = <<f>> \o @]

TreeDelete(q, f) == [q EXCEPT !.tree = @ \ {f}, !.current = @ - 1]

Lookup(q, name) == {f \in q.tree : q.files[f].name = name}

TreeInsert(q, f, name) ==
    [q EXCEPT !.files = (f :> NewFile(name)) @@ @, !.tree = @ \cup {f}, !.current = @ + 1]

DelEvent(q, f) == [q EXCEPT !.files[f].event = FALSE, !.files[f].useEvent = FALSE]

AddEvent(q, f, of) ==
    LET e == q.files[f]
    IN  IF ~of.events \/ e.event \/ of.fd = NoFd \/ e.uses < of.minUses THEN q
        ELSE [q EXCEPT !.files[f].event = TRUE, !.files[f].useEvent = FALSE]

\* ngx_close_cached_file: the entry is used again by the cache, or let go of.
CloseCachedFile(q, f, minUses) ==
    LET e == q.files[f]
        touched == QueueHead(QueueRemove([q EXCEPT !.files[f].accessed = now], f), f)
        base == IF e.close THEN q ELSE touched
        quiet == DelEvent(base, f)
        shut == [CloseFd(quiet, e.fd) EXCEPT !.files[f].fd = NoFd]
    IN  IF ~e.close /\ (e.uses >= minUses \/ e.count > 0) THEN base
        ELSE IF e.count > 0 THEN quiet
        ELSE IF e.close THEN Free(shut, f) ELSE shut

\* One entry out of the cache for good.
Drop(q, f) ==
    LET out == TreeDelete(QueueRemove(q, f), f)
        e == q.files[f]
    IN  IF ~e.err /\ ~e.dir THEN CloseCachedFile([out EXCEPT !.files[f].close = TRUE], f, 0)
        ELSE Free(out, f)

\* ngx_expire_old_cached_files: with n = 0 the oldest goes whatever its age.
ExpireOldCachedFiles(q, n) ==
    LET Old(p) == now - p.files[Last(p.queue)].accessed > Inactive
        Turn(p, k) == IF k < 3 /\ p.queue # << >> /\ (k = 0 \/ Old(p)) THEN Drop(p, Last(p.queue))
                      ELSE p
    IN  Turn(Turn(Turn(q, n), n + 1), n + 2)

\* ngx_open_and_stat_file: what the name is now, and a descriptor unless the one at hand is
\* still right or it is a directory that was to be tested.  bad: open() or fstat() fails.
OpenAndStatFile(q, name, of, bad) ==
    LET is == fs[name]
        free == (1 .. MaxFd) \ DOMAIN q.fds
        fd == Smallest(free)
        Failed == [of EXCEPT !.fd = NoFd, !.err = TRUE, !.rc = FALSE]
        Done(r) == [r EXCEPT !.uniq = is, !.dir = (is = Dir), !.rc = TRUE]
    IN  IF is = 0 THEN [q |-> q, of |-> Failed]
        ELSE IF of.fd # NoFd /\ of.uniq = is THEN [q |-> q, of |-> Done(of)]
        ELSE IF of.fd = NoFd /\ of.testDir /\ is = Dir THEN [q |-> q, of |-> Done(of)]
        ELSE IF bad = "open" \/ free = {} THEN [q |-> q, of |-> Failed]
        ELSE IF bad = "fstat" THEN [q |-> q, of |-> [of EXCEPT !.fd = NoFd, !.rc = FALSE]]
        ELSE IF is = Dir THEN [q |-> q, of |-> Done([of EXCEPT !.fd = NoFd])]
        ELSE [q |-> [q EXCEPT !.fds = (fd :> is) @@ @], of |-> Done([of EXCEPT !.fd = fd])]

\* The labels of ngx_open_cached_file, last first.  Each returns the cache, what the request was
\* told and the entry it holds (0 when none).
Found(q, f, of) ==
    [q |-> QueueHead([q EXCEPT !.files[f].accessed = now], f), of |-> of,
     file |-> IF ~of.err /\ ~of.dir THEN f ELSE 0]

Update(q, f, of) ==
    LET e == q.files[f]
        ok == [e EXCEPT !.fd = of.fd, !.err = FALSE, !.uniq = of.uniq, !.close = FALSE,
                        !.dir = of.dir, !.count = IF of.dir THEN @ ELSE @ + 1, !.created = now]
        bad == [e EXCEPT !.fd = of.fd, !.err = TRUE, !.created = now]
    IN  Found([q EXCEPT !.files[f] = IF of.err THEN bad ELSE ok], f, of)

Event(q, f, of) == Update(AddEvent(q, f, of), f, of)

Create(q, name, of) ==
    LET room == IF q.current >= CacheMax THEN ExpireOldCachedFiles(q, 0) ELSE q
        f == Smallest(Ids \ DOMAIN room.files)
    IN  Event(TreeInsert(room, f, name), f, of)

\* The entry, if there was one, is out of the cache; the descriptor just opened is closed.
FailedOpen(q, f, of) ==
    LET out == IF f = 0 THEN q
               ELSE IF q.files[f].count = 0
                    THEN Free(CloseFd(TreeDelete(q, f), q.files[f].fd), f)
                    ELSE [TreeDelete(q, f) EXCEPT !.files[f].close = TRUE]
    IN  [q |-> CloseFd(out, of.fd), of |-> [of EXCEPT !.err = TRUE], file |-> 0]

Fails(of) == ~of.rc /\ (~of.err \/ ~of.errors)

\* A mistaken form: an entry that is in use is changed in place.
RevalidatedInPlace(q, f, of) ==
    IF (of.err \/ of.dir) /\ (q.files[f].err \/ q.files[f].dir) THEN Update(q, f, of)
    ELSE IF ~of.err /\ of.uniq = q.files[f].uniq THEN Update(q, f, of)
    ELSE Event(CloseFd(DelEvent(q, f), q.files[f].fd), f, of)

\* What the revalidation of entry f showed, a descriptor in of when it is another file.
Revalidated(q, f, of) ==
    LET e == q.files[f]
        fd == e.fd
    IN  IF (of.err \/ of.dir) /\ (e.err \/ e.dir) THEN Update(q, f, of)
        ELSE IF ~of.err /\ ~of.dir /\ (e.dir \/ e.err) THEN Event(q, f, of)
        ELSE IF ~of.err /\ ~of.dir /\ of.uniq = e.uniq
             THEN Update([q EXCEPT !.files[f].useEvent = e.event], f, of)
        ELSE IF e.count = 0 THEN Event(CloseFd(DelEvent(q, f), fd), f, of)
        ELSE Create([TreeDelete(q, f) EXCEPT !.files[f].close = TRUE], e.name, of)

\* An entry is trusted without a look at the file system.
Trusted(e, of) ==
    \/ e.useEvent
    \/ ~e.event /\ (of.uniq = 0 \/ of.uniq = e.uniq) /\ now - e.created < of.valid

Missed(name, miss) ==
    IF Fails(miss.of) THEN FailedOpen(miss.q, 0, miss.of) ELSE Create(miss.q, name, miss.of)

Reopened(f, again) ==
    IF Fails(again.of) THEN FailedOpen(again.q, f, again.of) ELSE Event(again.q, f, again.of)

Checked(f, check) ==
    IF Fails(check.of) THEN FailedOpen(check.q, f, check.of) ELSE Revalidated(check.q, f, check.of)

Taken(q, f, cached) ==
    IF q.files[f].err THEN Found(q, f, [cached EXCEPT !.err = TRUE])
    ELSE IF q.files[f].dir THEN Found(q, f, cached)
    ELSE Found(AddEvent([q EXCEPT !.files[f].count = @ + 1], f, cached), f, cached)

\* The entry f, which is out of the queue while it is looked at.
Hit(q, f, name, of, bad) ==
    LET e == q.files[f]
    IN  IF e.fd = NoFd /\ ~e.err /\ ~e.dir THEN Reopened(f, OpenAndStatFile(q, name, of, bad))
        ELSE IF Trusted(e, of)
        THEN Taken(q, f, IF e.err THEN of ELSE [of EXCEPT !.fd = e.fd, !.uniq = e.uniq, !.dir = e.dir])
        ELSE Checked(f, OpenAndStatFile(q, name, [of EXCEPT !.testDir = @ \/ e.dir, !.fd = e.fd,
                                                            !.uniq = e.uniq], bad))

Used(f) == QueueRemove([o EXCEPT !.files[f].uses = IF @ < MaxUses THEN @ + 1 ELSE @], f)

OpenCachedFile(name, of0, bad) ==
    LET of == [of0 EXCEPT !.fd = NoFd, !.err = FALSE]
        f == CHOOSE g \in Lookup(o, name) : TRUE
    IN  IF Lookup(o, name) = {} THEN Missed(name, OpenAndStatFile(o, name, of, bad))
        ELSE Hit(Used(f), f, name, of, bad)

\* How long ago the file a request was given had left its name.
Late(name, uniq) == IF fs[name] = uniq THEN 0 ELSE now - left[uniq]

NoHold == [file |-> 0, fd |-> NoFd, uniq |-> 0, late |-> 0, of |-> [valid |-> 0, minUses |-> 0]]

Init ==
    /\ fs = [n \in Names |-> 0]
    /\ left = [u \in Uniqs |-> -1]
    /\ o = CacheInit
    /\ held = [r \in Requests |-> NoHold]
    /\ now = 0

\* A request opens a name through the cache.
Open(r, name, of, bad) ==
    /\ held[r] = NoHold
    /\ \E res \in {OpenCachedFile(name, of, bad)} :
        /\ o' = res.q
        /\ held' = IF res.file = 0 THEN held
                   ELSE [held EXCEPT ![r] = [file |-> res.file, fd |-> res.of.fd,
                                             uniq |-> res.of.uniq,
                                             late |-> IF res.q.files[res.file].useEvent THEN 0
                                                      ELSE Late(name, res.of.uniq),
                                             of |-> [valid |-> of.valid, minUses |-> of.minUses]]]
    /\ UNCHANGED <<fs, left, now>>

\* The same where no cache is configured: the descriptor is the request's own.
OpenUncached(r, name, of, bad) ==
    /\ held[r] = NoHold
    /\ \E res \in {OpenAndStatFile(o, name, of, bad)} :
        /\ o' = res.q
        /\ held' = IF res.of.rc /\ ~res.of.dir
                   THEN [held EXCEPT ![r] = [NoHold EXCEPT !.fd = res.of.fd, !.uniq = res.of.uniq]]
                   ELSE held
    /\ UNCHANGED <<fs, left, now>>

\* The request's pool is destroyed: ngx_open_file_cleanup, or ngx_pool_cleanup_file.
OpenFileCleanup(r) ==
    LET f == held[r].file
    IN  /\ held[r] # NoHold
        /\ held' = [held EXCEPT ![r] = NoHold]
        /\ o' = IF f = 0 THEN CloseFd(o, held[r].fd)
                ELSE ExpireOldCachedFiles(
                         CloseCachedFile([o EXCEPT !.files[f].count = @ - 1], f, held[r].of.minUses), 1)
        /\ UNCHANGED <<fs, left, now>>

\* ngx_open_file_cache_remove: the kernel says that the file has changed.  An entry that is no
\* longer in the tree is removed from it a second time.
CacheRemove(f) ==
    LET e == o.files[f]
        out == TreeDelete(QueueRemove(o, f), f)
    IN  /\ e.event
        /\ fs[e.name] # e.uniq
        /\ o' = IF f \notin o.tree THEN [o EXCEPT !.stray = TRUE]
                ELSE CloseCachedFile([out EXCEPT !.files[f].event = FALSE,
                                                 !.files[f].useEvent = FALSE,
                                                 !.files[f].close = TRUE], f, 0)
        /\ UNCHANGED <<fs, left, held, now>>

\* ngx_open_file_cache_cleanup: the worker leaves and its cycle's pool is destroyed.
CacheCleanup ==
    LET Out(q, f) ==
            LET e == q.files[f]
                out == TreeDelete(QueueRemove(q, f), f)
            IN  IF ~e.err /\ ~e.dir
                THEN CloseCachedFile([out EXCEPT !.files[f].close = TRUE, !.files[f].count = 0], f, 0)
                ELSE Free(out, f)
    IN  /\ held = [r \in Requests |-> NoHold]
        /\ o' = [FoldSeq(LAMBDA f, q : Out(q, f), o, o.queue) EXCEPT !.gone = TRUE]
        /\ UNCHANGED <<fs, left, held, now>>

\* The environment: a name becomes another file, a directory or nothing; a second passes.
Change(name, is) ==
    /\ fs[name] # is
    /\ is \in Uniqs => /\ \A n \in Names : fs[n] # is
                       /\ \A d \in DOMAIN o.fds : o.fds[d] # is
    /\ fs' = [fs EXCEPT ![name] = is]
    /\ left' = [u \in Uniqs |-> IF u = fs[name] THEN now ELSE IF u = is THEN -1 ELSE left[u]]
    /\ UNCHANGED <<o, held, now>>

Tick ==
    /\ now < MaxNow
    /\ now' = now + 1
    /\ UNCHANGED <<fs, left, o, held>>

Next ==
    /\ ~o.stray /\ ~o.gone
    /\ \/ \E r \in Requests, n \in Names, of \in Ofs, bad \in {"no", "open", "fstat"} :
             Open(r, n, of, bad) \/ OpenUncached(r, n, of, bad)
       \/ \E r \in Requests : OpenFileCleanup(r)
       \/ \E f \in DOMAIN o.files : CacheRemove(f)
       \/ CacheCleanup
       \/ \E n \in Names, is \in Uniqs \cup {0, Dir} : Change(n, is)
       \/ Tick

Spec == Init /\ [][Next]_vars

(****************************************************************************)
(* Whoever holds a file holds it open: through replacement, expiry, a full   *)
(* cache and failed revalidation, the descriptor a request was given stays    *)
(* open on the same file until the request ends, its entry counts it, and an  *)
(* entry that has left the cache lives exactly as long as it has holders.     *)
(* No descriptor is left that nobody owns (file->count and file->close).      *)
(****************************************************************************)
Owners(d) ==
    {f \in DOMAIN o.files : o.files[f].fd = d} \cup {r \in Requests : held[r].file = 0 /\ held[r].fd = d}

HeldStaysOpen ==
    ~o.stray =>
    /\ \A r \in Requests : held[r] # NoHold =>
          /\ held[r].fd \in DOMAIN o.fds /\ o.fds[held[r].fd] = held[r].uniq
          /\ held[r].file # 0 => /\ held[r].file \in DOMAIN o.files
                                 /\ o.files[held[r].file].fd = held[r].fd
    /\ \A f \in DOMAIN o.files :
          /\ o.files[f].count = Cardinality({r \in Requests : held[r].file = f})
          /\ f \notin o.tree => o.files[f].close /\ o.files[f].count > 0
    /\ \A d \in DOMAIN o.fds : Cardinality(Owners(d)) = 1
    /\ \A f \in DOMAIN o.files : o.files[f].fd # NoFd => o.files[f].fd \in DOMAIN o.fds

(****************************************************************************)
(* The cache stays within its limit with one entry a name, the tree, the     *)
(* queue and the counter agree, nothing is left when the worker leaves (the   *)
(* two alerts of ngx_open_file_cache_cleanup), and nobody is given a file     *)
(* that left its name of->valid seconds ago or more.                          *)
(****************************************************************************)
CacheKept ==
    ~o.stray =>
    /\ ToSet(o.queue) = o.tree /\ Len(o.queue) = Cardinality(o.tree)
    /\ o.current = Cardinality(o.tree) /\ o.current <= CacheMax
    /\ \A f, g \in o.tree : o.files[f].name = o.files[g].name => f = g
    /\ o.gone => o.tree = {} /\ o.current = 0
    /\ \A r \in Requests : held[r].late = 0 \/ held[r].late < held[r].of.valid
==============================================================================
