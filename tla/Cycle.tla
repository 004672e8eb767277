------------------------------- MODULE Cycle -------------------------------
(***************************************************************************)
(* core/ngx_cycle.c, with core/ngx_connection.c and main() of nginx.c: how *)
(* the master makes a new cycle out of a configuration file, at the start, *)
(* in a test (-t), after an upgrade with inherited sockets and on every    *)
(* reload, and what is left when it gives up half way.  The master runs    *)
(* ngx_init_cycle in one go, but the system calls it makes may fail at any *)
(* point, and other processes take and free addresses meanwhile.           *)
(*                                                                         *)
(* A cycle is a record: its configuration, its log files and its listening *)
(* sockets with their descriptors, its shared zones with their addresses.  *)
(* os is what the kernel and the file system hold for the process.         *)
(* TCP_DEFER_ACCEPT is the variant of deferred accept that is followed.    *)
(* The files of a configuration include its error log, a file of no name   *)
(* is stderr.  No new binary is running, so the pid file has its own name. *)
(* An address of memory that was unmapped is not used again.               *)
(***************************************************************************)
EXTENDS Integers, Sequences, FiniteSets, FiniteSetsExt, SequencesExt

CONSTANTS
    CycleConfs,     \* [ok, pid, files, zones, listen]: what the file may say
    Heritages,      \* sequences of [addr, ok, deferred]: sockets of $NGINX
    UnixAddrs,      \* the addresses that are names in the file system
    Tries,          \* rounds of bind(), 5 in the code
    MaxReloads      \* bound: reloads, and turns of the world outside

VARIABLES
    proc,           \* [mode, pc, left, tries, zone]
    os,             \* [fds, segs, pids, inuse, paths, next]
    cur,            \* ngx_cycle
    new,            \* the cycle ngx_init_cycle is making
    wrecked         \* zones of cur that a reload unmapped before it failed

vars == <<proc, os, cur, new, wrecked>>

NoFd == 0
StdErr == -1
PidFd == "pid"     \* what the descriptor of a pid file is of
NoConf == [ok |-> FALSE, pid |-> "", files |-> <<>>, zones |-> <<>>, listen |-> <<>>]
NoCycle == [conf |-> NoConf, files |-> <<>>, zones |-> <<>>, ls |-> <<>>]

(***************************************************************************)
(* The kernel.                                                             *)
(***************************************************************************)
FreeFd(o) == Min((1..(Cardinality(o.fds) + 1)) \ {d.fd : d \in o.fds})

OpenFd(o, what, backlog) ==
    [o EXCEPT !.fds = @ \cup {[fd |-> FreeFd(o), of |-> what, backlog |-> backlog,
                               deferred |-> FALSE]}]

CloseFds(o, fs) == [o EXCEPT !.fds = {d \in @ : d.fd \notin fs}]

\* ngx_create_pidfile; one that cannot be written stays, and its descriptor too.
PidfileResults == {"ok", "not opened", "not written"}
CreatePidfile(o, name, result) ==
    CASE result = "ok"          -> [o EXCEPT !.pids = @ \cup {name}]
      [] result = "not opened"  -> o
      [] result = "not written" -> OpenFd([o EXCEPT !.pids = @ \cup {name}], PidFd, 0)
DeletePidfile(o, name) == [o EXCEPT !.pids = @ \ {name}]

Busy(o, addr) == addr \in o.inuse \cup o.paths \cup {d.of : d \in o.fds}

(***************************************************************************)
(* What the configuration declares.                                        *)
(***************************************************************************)
\* ngx_shared_memory_add: a second mention may leave the size out.
AddZone(x, d) ==
    LET same == {z \in Range(x.zones) : z.name = d.name}
        z    == [name |-> d.name, size |-> d.size, tag |-> d.tag, addr |-> 0]
    IN  IF same = {} THEN [x EXCEPT !.zones = Append(@, z)]
        ELSE [x EXCEPT !.ok = @ /\ \A y \in same : d.size \in {0, y.size} /\ d.tag = y.tag]

DeclaredZones(c) == FoldLeft(AddZone, [zones |-> <<>>, ok |-> TRUE], c.zones)

\* ngx_conf_open_file: a file that is named again is the same file.
ConfOpenFile(files, name) ==
    IF name # "" /\ \E f \in Range(files) : f.name = name THEN files
    ELSE Append(files, [name |-> name, fd |-> IF name = "" THEN StdErr ELSE NoFd])

\* ngx_create_listening.
CreateListening(l) ==
    [addr |-> l.addr, fd |-> NoFd, backlog |-> l.backlog, deferred |-> l.deferred,
     ignore |-> FALSE, open |-> FALSE, remain |-> FALSE, listen |-> FALSE,
     add |-> FALSE, del |-> FALSE]

NewCycle(c) ==
    [conf  |-> c,
     files |-> FoldLeft(ConfOpenFile, <<>>, c.files),
     zones |-> DeclaredZones(c).zones,
     ls    |-> [i \in DOMAIN c.listen |-> CreateListening(c.listen[i])]]

IsInitCycle(c) == c.conf = NoConf

(***************************************************************************)
(* ngx_add_inherited_sockets and ngx_set_inherited_sockets: a socket whose *)
(* address cannot be read, or of a family that is not supported, is        *)
(* ignored.                                                                *)
(***************************************************************************)
SetInherited(h) ==
    [i \in DOMAIN h |->
        [CreateListening([addr |-> h[i].addr, backlog |-> IF h[i].ok THEN 511 ELSE 0,
                          deferred |-> h[i].ok /\ h[i].deferred])
            EXCEPT !.fd = i, !.ignore = ~h[i].ok]]

InheritedFds(h) ==
    {[fd |-> i, of |-> h[i].addr, backlog |-> 511, deferred |-> h[i].deferred] :
        i \in DOMAIN h}

(***************************************************************************)
(* The listening sockets of the old cycle that the new one takes over.     *)
(***************************************************************************)
\* ngx_cmp_sockaddr
CmpSockaddr(a, b) == a = b

Match(l, ls) ==
    {i \in DOMAIN ls : ~ls[i].ignore /\ CmpSockaddr(l.addr, ls[i].addr)}

\* The comparison reads ls[n] and nls[i], not ls[i] and nls[n]: junk is what
\* lies behind the old array, the new one is zeroed up to the length of the old.
Inherit(nls, ls, junk) ==
    [n \in DOMAIN nls |->
        LET m    == Match(nls[n], ls)
            i    == Min(m)
            oldn == IF n \in DOMAIN ls THEN ls[n]
                    ELSE [backlog |-> junk.backlog, deferred |-> junk.deferred]
            newi == IF i \in DOMAIN nls THEN nls[i].backlog ELSE 0
        IN  IF m = {} THEN [nls[n] EXCEPT !.open = TRUE]
            ELSE [nls[n] EXCEPT
                    !.fd = ls[i].fd,
                    !.open = ls[i].fd = NoFd,
                    !.listen = (oldn.backlog # newi),
                    !.del = oldn.deferred /\ ~nls[n].deferred,
                    !.add = /\ ~(oldn.deferred /\ ~nls[n].deferred)
                            /\ ls[i].deferred # nls[n].deferred]]

Remains(nls, ls) ==
    [i \in DOMAIN ls |->
        [ls[i] EXCEPT !.remain = \E n \in DOMAIN nls :
            Match(nls[n], ls) # {} /\ i = Min(Match(nls[n], ls))]]

AllOpen(nls) ==
    [n \in DOMAIN nls |-> [nls[n] EXCEPT !.open = TRUE, !.add = nls[n].deferred]]

(***************************************************************************)
(* ngx_open_listening_sockets, one round: the sockets before stop are      *)
(* tried, the one at stop fails for another reason than EADDRINUSE; when   *)
(* it is listen() that fails, the name of a unix socket stays.             *)
(***************************************************************************)
\* The name that bind() makes; a test deletes it.
BindName(o, addr) ==
    IF addr \in UnixAddrs /\ proc.mode # "test" THEN [o EXCEPT !.paths = @ \cup {addr}] ELSE o

OpenOne(x, n) ==
    LET l == x.ls[n]
        o == OpenFd(x.os, l.addr, l.backlog)
        s == FreeFd(x.os)
    IN  CASE l.fd # NoFd -> x
          [] l.fd = NoFd /\ Busy(x.os, l.addr) ->
                IF proc.mode = "test" THEN [x EXCEPT !.os = o]
                ELSE [x EXCEPT !.failed = TRUE]
          [] OTHER ->
                [x EXCEPT !.os = BindName(o, l.addr),
                          !.ls[n].fd = s, !.ls[n].listen = TRUE]

OpenRound(nls, o, stop) ==
    FoldLeft(OpenOne, [ls |-> nls, os |-> o, failed |-> FALSE],
             [k \in 1..(stop - 1) |-> k])

(***************************************************************************)
(* ngx_configure_listening_sockets: a listen() that fails (deaf) or an     *)
(* option that cannot be set (eager) is ignored.                           *)
(***************************************************************************)
DeferAccept(d, l) == IF l.add THEN TRUE ELSE IF l.del THEN FALSE ELSE d.deferred

ConfigureFd(d, nls, deaf, eager) ==
    LET mine == {n \in DOMAIN nls : nls[n].fd = d.fd}
        n    == CHOOSE k \in mine : TRUE
    IN  IF mine = {} THEN d
        ELSE [d EXCEPT !.backlog  = IF nls[n].listen /\ n \notin deaf THEN nls[n].backlog ELSE @,
                       !.deferred = IF n \in eager THEN @ ELSE DeferAccept(d, nls[n])]

ConfigureListening(nls, o, deaf, eager) ==
    [o EXCEPT !.fds = {ConfigureFd(d, nls, deaf, eager) : d \in @}]

\* The listening sockets know whether their accept() is deferred.
ConfiguredListening(nls, eager) ==
    [n \in DOMAIN nls |->
        IF nls[n].add /\ n \notin eager THEN [nls[n] EXCEPT !.deferred = TRUE] ELSE nls[n]]

(***************************************************************************)
(* main() and ngx_init_cycle.                                              *)
(***************************************************************************)
Init ==
    \E mode \in {"master", "test"}, h \in Heritages, inuse \in SUBSET UNION
            {{c.listen[i].addr : i \in DOMAIN c.listen} : c \in CycleConfs} :
        /\ mode = "test" => h = <<>>
        /\ inuse \cap {h[i].addr : i \in DOMAIN h} = {}
        /\ proc = [mode |-> mode, pc |-> "idle", left |-> MaxReloads, tries |-> 0,
                   zone |-> 0]
        /\ cur = [NoCycle EXCEPT !.ls = SetInherited(h)]
        /\ os = [fds |-> InheritedFds(h), segs |-> {}, pids |-> {}, inuse |-> inuse,
                 paths |-> {h[i].addr : i \in DOMAIN h} \cap UnixAddrs, next |-> 1]
        /\ new = NoCycle
        /\ wrecked = {}

Goto(pc) == proc' = [proc EXCEPT !.pc = pc, !.zone = 1, !.tries = Tries]

\* The file is read.  Nothing outside the pools has changed when it is refused.
\* At the start a NULL ends main().
Parse(c) ==
    /\ proc.pc = "idle"
    /\ proc.left > 0
    /\ IF c.ok /\ DeclaredZones(c).ok
       THEN /\ new' = NewCycle(c)
            /\ proc' = [proc EXCEPT !.pc = "pid", !.left = @ - 1]
       ELSE /\ new' = new
            /\ proc' = [proc EXCEPT !.pc = IF IsInitCycle(cur) THEN "exit" ELSE "idle",
                                    !.left = @ - 1]
    /\ UNCHANGED <<os, cur, wrecked>>

\* A reload that changes the name of the pid file moves it at once; the lock
\* file and the paths are tried after that.  A test writes nothing into it.
MovePidfile ==
    /\ proc.pc = "pid"
    /\ \E made \in PidfileResults, paths \in BOOLEAN :
        LET moves == ~IsInitCycle(cur) /\ new.conf.pid # cur.conf.pid
            tries == proc.mode = "test" \/ moves
            o     == CreatePidfile(os, new.conf.pid, made)
        IN  /\ ~tries => made = "ok"
            /\ made = "not written" => proc.mode # "test"
            /\ os' = IF ~tries THEN os
                     ELSE IF moves /\ made = "ok" THEN DeletePidfile(o, cur.conf.pid) ELSE o
            /\ Goto(IF made = "ok" /\ paths THEN "files" ELSE "failed")
    /\ UNCHANGED <<cur, new, wrecked>>

\* A file that has a name is opened; the first n were when one failed.
OpenFile(x, i) ==
    IF x.files[i].name = "" THEN x
    ELSE [x EXCEPT !.os = OpenFd(@, x.files[i].name, 0), !.files[i].fd = FreeFd(x.os)]

OpenFiles ==
    /\ proc.pc = "files"
    /\ \E n \in 0..Len(new.files) :
        LET x == FoldLeft(OpenFile, [os |-> os, files |-> new.files], [i \in 1..n |-> i])
        IN  /\ os' = x.os
            /\ new' = [new EXCEPT !.files = x.files]
            /\ \/ Goto("failed")
               \/ n = Len(new.files) /\ Goto("zones")
    /\ UNCHANGED <<cur, wrecked>>

(***************************************************************************)
(* A zone of the same name and size is taken over with what it holds; one  *)
(* of another size is unmapped before the new one is mapped.               *)
(***************************************************************************)
OldZones(z) == {i \in DOMAIN cur.zones : cur.zones[i].name = z.name}
SameSize(z, old) == z.size = old.size

TakeOver(old) ==
    /\ new' = [new EXCEPT !.zones[proc.zone].addr = old.addr]
    /\ \/ proc' = [proc EXCEPT !.zone = @ + 1]
       \/ Goto("failed")
       \/ old.addr \notin os.segs /\ Goto("exit")    \* init reads unmapped memory
    /\ UNCHANGED <<os, cur, wrecked>>

Allocate(unmapped) ==
    /\ wrecked' = wrecked \cup {z.name : z \in unmapped}
    /\ \/ /\ os' = [os EXCEPT !.segs = (@ \ {z.addr : z \in unmapped}) \cup {os.next},
                              !.next = @ + 1]
          /\ new' = [new EXCEPT !.zones[proc.zone].addr = os.next]
          /\ \/ proc' = [proc EXCEPT !.zone = @ + 1]
             \/ Goto("failed")                  \* ngx_init_zone_pool or init
       \/ /\ os' = [os EXCEPT !.segs = @ \ {z.addr : z \in unmapped}]
          /\ new' = new
          /\ Goto("failed")                     \* ngx_shm_alloc
    /\ UNCHANGED cur

InitZone ==
    /\ proc.pc = "zones"
    /\ proc.zone <= Len(new.zones)
    /\ LET z    == new.zones[proc.zone]
           olds == {cur.zones[i] : i \in OldZones(z)}
       IN  \/ /\ z.size = 0
              /\ Goto("failed")
              /\ UNCHANGED <<os, cur, new, wrecked>>
           \/ z.size # 0 /\ \E old \in olds : SameSize(z, old) /\ TakeOver(old)
           \/ z.size # 0 /\ (\A old \in olds : ~SameSize(z, old)) /\ Allocate(olds)

\* The sockets are matched when the zones are done.
InheritSockets ==
    /\ proc.pc = "zones"
    /\ proc.zone > Len(new.zones)
    /\ IF cur.ls # <<>>
       THEN \E junk \in [backlog : {0, 511}, deferred : BOOLEAN] :
                /\ new' = [new EXCEPT !.ls = Inherit(new.ls, cur.ls, junk)]
                /\ cur' = [cur EXCEPT !.ls = Remains(new.ls, cur.ls)]
       ELSE new' = [new EXCEPT !.ls = AllOpen(@)] /\ cur' = cur
    /\ Goto("open")
    /\ UNCHANGED <<os, wrecked>>

\* One round of bind(): 500 ms later the next, while tries are left.
OpenSockets ==
    /\ proc.pc = "open"
    /\ \E stop \in 1..(Len(new.ls) + 1), bound \in BOOLEAN :
        LET x == OpenRound(new.ls, os, stop)
        IN  /\ stop <= Len(new.ls) => new.ls[stop].fd = NoFd
            /\ bound => stop <= Len(new.ls) /\ ~Busy(x.os, new.ls[stop].addr)
            /\ os' = IF bound THEN BindName(x.os, new.ls[stop].addr) ELSE x.os
            /\ new' = [new EXCEPT !.ls = x.ls]
            /\ IF stop <= Len(new.ls) \/ (x.failed /\ proc.tries = 1)
               THEN Goto("failed")
               ELSE proc' = IF x.failed THEN [proc EXCEPT !.tries = @ - 1]
                            ELSE [proc EXCEPT !.pc = "commit"]
    /\ UNCHANGED <<cur, wrecked>>

(***************************************************************************)
(* The end.  init_module that fails is exit(1).  Then the old zones that   *)
(* have no namesake, the old sockets that do not remain, the names of the  *)
(* unix ones and the old files go, and main() writes the pid file.         *)
(***************************************************************************)
Freed == {z.addr : z \in {x \in Range(cur.zones) :
                            \A y \in Range(new.zones) : y.name # x.name}}

Left == {l \in Range(cur.ls) : ~l.remain /\ l.fd # NoFd}

CloseOld(o) ==
    [CloseFds(o, {l.fd : l \in Left} \cup {f.fd : f \in Range(cur.files)})
        EXCEPT !.segs = @ \ Freed,
               !.paths = @ \ {l.addr : l \in {k \in Left : k.addr \in UnixAddrs}}]

\* A zone that was unmapped is still, when the new cycle took it over.
StillWrecked == {z.name : z \in {x \in Range(new.zones) :
                    \E y \in Range(cur.zones) : y.name = x.name /\ y.addr = x.addr /\ y.name \in wrecked}}

Commit ==
    /\ proc.pc = "commit"
    /\ \E deaf, eager \in SUBSET DOMAIN new.ls, pid \in PidfileResults :
        LET o == CloseOld(IF proc.mode = "test" THEN os
                          ELSE ConfigureListening(new.ls, os, deaf, eager))
            starts == IsInitCycle(cur) /\ proc.mode = "master"
        IN  /\ ~starts => pid = "ok"
            /\ os' = IF starts THEN CreatePidfile(o, new.conf.pid, pid) ELSE o
            /\ cur' = IF proc.mode = "test" THEN new
                      ELSE [new EXCEPT !.ls = ConfiguredListening(@, eager)]
            /\ wrecked' = StillWrecked
            /\ proc' = [proc EXCEPT !.pc =
                            IF proc.mode = "test" \/ pid # "ok" THEN "exit" ELSE "idle"]
    /\ new' = NoCycle

InitModuleFails ==
    /\ proc.pc = "commit"
    /\ proc' = [proc EXCEPT !.pc = "exit"]
    /\ UNCHANGED <<os, cur, new, wrecked>>

\* A mistaken form: the sockets taken over from the old cycle are closed too.
OpenedByNewAll == {l.fd : l \in {k \in Range(new.ls) : k.fd # NoFd}}

\* failed: only the files and the sockets that the new cycle opened are closed.
\* The zones it mapped stay mapped, the pid file stays where it is.
OpenedByNew == {l.fd : l \in {k \in Range(new.ls) : k.fd # NoFd /\ k.open}}

Failed ==
    /\ proc.pc = "failed"
    /\ os' = CloseFds(os, {f.fd : f \in Range(new.files)}
                           \cup (IF proc.mode = "test" THEN {} ELSE OpenedByNew))
    /\ new' = NoCycle
    /\ proc' = [proc EXCEPT !.pc = IF IsInitCycle(cur) THEN "exit" ELSE "idle"]
    /\ UNCHANGED <<cur, wrecked>>

(***************************************************************************)
(* ngx_reopen_files: a file that cannot be opened, or whose owner or mode  *)
(* cannot be set, keeps its old descriptor (after a failed chown or chmod  *)
(* the new one is closed, and fcntl() then fails on it).                   *)
(***************************************************************************)
ReopenOne(x, i) ==
    [x EXCEPT !.os = CloseFds(OpenFd(@, cur.files[i].name, 0), {cur.files[i].fd}),
              !.files[i].fd = FreeFd(x.os)]

ReopenFiles ==
    /\ proc.pc = "idle"
    /\ ~IsInitCycle(cur)
    /\ proc.left > 0
    /\ \E ok \in SUBSET {i \in DOMAIN cur.files : cur.files[i].name # ""} :
        LET x == FoldLeft(ReopenOne, [os |-> os, files |-> cur.files],
                          SetToSortSeq(ok, <))
        IN  os' = x.os /\ cur' = [cur EXCEPT !.files = x.files]
    /\ proc' = [proc EXCEPT !.left = @ - 1]
    /\ UNCHANGED <<new, wrecked>>

\* Another process takes or frees an address while bind() is tried again.
Outside(a) ==
    /\ proc.pc = "open"
    /\ proc.left > 0
    /\ a \notin {d.of : d \in os.fds} \cup os.paths
    /\ os' = [os EXCEPT !.inuse = IF a \in @ THEN @ \ {a} ELSE @ \cup {a}]
    /\ proc' = [proc EXCEPT !.left = @ - 1]
    /\ UNCHANGED <<cur, new, wrecked>>

Next ==
    \/ \E c \in CycleConfs : Parse(c)
    \/ MovePidfile \/ OpenFiles \/ InitZone \/ InheritSockets \/ OpenSockets
    \/ Commit \/ InitModuleFails \/ Failed \/ ReopenFiles
    \/ \E a \in {l.addr : l \in Range(new.ls)} : Outside(a)

Spec == Init /\ [][Next]_vars

----------------------------------------------------------------------------
Holds(fd, what) == \E d \in os.fds : d.fd = fd /\ d.of = what

(***************************************************************************)
(* At every moment of a reload, a failed one and an upgrade included, the  *)
(* cycle in use has a socket of its own for each of its addresses and an   *)
(* open file for each of its logs, each still the one it was opened as,    *)
(* and its zones are mapped, but for those that a failed reload with       *)
(* another size has unmapped.  (ngx_init_cycle, core/ngx_cycle.c)          *)
(***************************************************************************)
CurrentServes ==
    proc.pc # "exit" =>
        /\ \A i \in DOMAIN cur.ls : Holds(cur.ls[i].fd, cur.ls[i].addr)
        /\ \A i \in DOMAIN cur.files : cur.files[i].fd = StdErr \/ Holds(cur.files[i].fd, cur.files[i].name)
        /\ \A z \in Range(cur.zones) : z.name \in wrecked \/ z.addr \in os.segs
        /\ \A y, z \in Range(cur.zones) : y.addr = z.addr => y = z
        /\ \A i, j \in DOMAIN cur.ls : cur.ls[i].fd = cur.ls[j].fd => i = j

(***************************************************************************)
(* Between reloads nothing but the cycle in use holds a descriptor: what   *)
(* an earlier cycle, an upgrade or a reload that failed opened is closed,  *)
(* and an address that was configured before and is no more is closed.     *)
(* Only the descriptor of a pid file that could not be written is lost.    *)
(* (the ends of ngx_init_cycle, core/ngx_cycle.c)                          *)
(***************************************************************************)
NothingLeft ==
    proc.pc = "idle" =>
        {d.fd : d \in {x \in os.fds : x.of # PidFd}}
            = {l.fd : l \in Range(cur.ls)} \cup ({f.fd : f \in Range(cur.files)} \ {StdErr})

=============================================================================
