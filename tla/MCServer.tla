----------------------------- MODULE MCServer ------------------------------
(***************************************************************************)
(* What the configuration is made into and what is shared by requests, one *)
(* part in each behaviour: a directive in the blocks of the configuration  *)
(* file (ConfFile), the cycles of the master, the cache of open files, and *)
(* the shared zones of limit_req and limit_conn with the slab allocator.   *)
(* The variables of the other parts are Off.                               *)
(***************************************************************************)
EXTENDS ConfFile

VARIABLES part,
          proc, os, new, wrecked,
          fs, left, o, held, now,
          zoneKind, sl, used, node, queue, holder, lost, alert

Off == "off"

confVars == <<dir, blocks, val, given, refused, done>>
cycleVars == <<proc, os, new, wrecked>>
fileVars == <<fs, left, o, held>>
zoneVars == <<zoneKind, sl, used, node, queue, holder, lost, alert>>
allVars == <<part, confVars, cycleVars, fileVars, zoneVars, cur, now>>

----------------------------------------------------------------------------
\* Configurations that add and drop addresses, files and zones, change the
\* order of the addresses, the size of a zone and the name of the pid file,
\* and one that is refused.
Listen(a, b, d) == [addr |-> a, backlog |-> b, deferred |-> d]
Zone(n, z, g) == [name |-> n, size |-> z, tag |-> g]
CycleConf(p, f, z, a) == [ok |-> TRUE, pid |-> p, files |-> f, zones |-> z, listen |-> a]
MCCycleConfs ==
  { CycleConf("p", <<"e">>, <<Zone("z", 1, "t")>>,
              <<Listen("a", 511, FALSE), Listen("b", 511, TRUE)>>),
    CycleConf("p", <<"e", "f", "e">>, <<Zone("z", 1, "t"), Zone("z", 0, "t")>>,
              <<Listen("u", 511, FALSE), Listen("a", 5, TRUE)>>),
    CycleConf("q", <<"", "f">>, <<Zone("z", 2, "t"), Zone("y", 1, "t")>>,
              <<Listen("b", 511, FALSE)>>),
    CycleConf("q", <<>>, <<Zone("y", 0, "t")>>, <<>>),
    CycleConf("q", <<>>, <<Zone("y", 1, "t"), Zone("y", 1, "s")>>, <<>>) }

\* Started afresh, or after an upgrade with sockets of the old binary, one of
\* which has no address that can be read.
MCHeritages ==
  { <<>>,
    <<[addr |-> "b", ok |-> TRUE, deferred |-> TRUE],
      [addr |-> "i", ok |-> FALSE, deferred |-> FALSE]>>,
    <<[addr |-> "u", ok |-> TRUE, deferred |-> FALSE],
      [addr |-> "a", ok |-> TRUE, deferred |-> FALSE]>> }

\* What a request asks of the cache of open files.
Of(v, m, e, w) ==
  [fd |-> 0, err |-> FALSE, rc |-> FALSE, uniq |-> 0, dir |-> FALSE, testDir |-> FALSE,
   valid |-> v, minUses |-> m, errors |-> e, events |-> w]

CY == INSTANCE Cycle WITH
        CycleConfs <- MCCycleConfs, Heritages <- MCHeritages, UnixAddrs <- {"u"},
        Tries <- 2, MaxReloads <- 4
\* One name that changes under two kinds of requests, and two names for the
\* one place of the cache.
OF == INSTANCE OpenFileCache WITH
        Names <- {"a"}, Uniqs <- {1, 2}, Requests <- {"r", "s"}, CacheMax <- 1,
        Ofs <- {Of(2, 1, TRUE, FALSE), Of(1, 2, FALSE, TRUE)},
        Inactive <- 1, MaxFd <- 2, MaxUses <- 2, MaxNow <- 2
OT == INSTANCE OpenFileCache WITH
        Names <- {"a", "b"}, Uniqs <- {1, 2}, Requests <- {"r", "s"}, CacheMax <- 1,
        Ofs <- {Of(1, 1, TRUE, FALSE)},
        Inactive <- 1, MaxFd <- 2, MaxUses <- 2, MaxNow <- 1
ZO == INSTANCE Zones WITH kind <- zoneKind,
        PageShift <- 4, Word <- 4, MinShift <- 0, Pages <- 2, MaxBlocks <- 7,
        Keys <- {"a", "b", "c"}, NodeSize <- [a |-> 4, b |-> 6, c |-> 6],
        KeyLen <- [a |-> 1, b |-> 1, c |-> 1], Sizes <- {1, 2, 4, 7, 20},
        Requests <- {"r", "s", "t"}, Rate <- 1001, Burst <- 1000, Conns <- {1, 2},
        OldAge <- 1500, TickMs <- 500, MaxNow <- 2500

----------------------------------------------------------------------------
NoConf == /\ dir = Off /\ blocks = Off /\ val = Off /\ given = Off /\ refused = Off
          /\ done = Off
NoCycle == proc = Off /\ os = Off /\ new = Off /\ wrecked = Off
NoFiles == fs = Off /\ left = Off /\ o = Off /\ held = Off
NoZones == /\ zoneKind = Off /\ sl = Off /\ used = Off /\ node = Off /\ queue = Off
           /\ holder = Off /\ lost = Off /\ alert = Off

MCInit ==
  \/ part = "conf" /\ Init /\ NoCycle /\ NoFiles /\ NoZones /\ now = Off
  \/ part = "cycle" /\ CY!Init /\ NoConf /\ NoFiles /\ NoZones /\ now = Off
  \/ part = "file" /\ OF!Init /\ NoConf /\ NoCycle /\ NoZones /\ cur = Off
  \/ part = "files" /\ OT!Init /\ NoConf /\ NoCycle /\ NoZones /\ cur = Off
  \/ part = "zones" /\ ZO!Init /\ NoConf /\ NoCycle /\ NoFiles /\ cur = Off

ConfStep == /\ part = "conf" /\ Next
            /\ UNCHANGED <<part, cycleVars, fileVars, zoneVars, now>>
CycleStep == /\ part = "cycle" /\ CY!Next
             /\ UNCHANGED <<part, confVars, fileVars, zoneVars, now>>
FileStep == /\ \/ part = "file" /\ OF!Next
               \/ part = "files" /\ OT!Next
            /\ UNCHANGED <<part, confVars, cycleVars, zoneVars, cur>>
ZoneStep == /\ part = "zones" /\ ZO!Next
            /\ UNCHANGED <<part, confVars, cycleVars, fileVars, cur>>

MCNext == ConfStep \/ CycleStep \/ FileStep \/ ZoneStep

MCSpec == MCInit /\ [][MCNext]_allVars


\* ngx_init_cycle(): the sockets and files of the current configuration are open
\* and its zones mapped, no two as one, and the sockets and files that a reload
\* or a failed one no longer needs are closed, over sequences of both.
ReloadsWhole == part = "cycle" => CY!CurrentServes /\ CY!NothingLeft

\* ngx_open_cached_file(): a descriptor a request was given stays open and is
\* the file's until the request is over, however the entry expires, is pushed
\* out or found changed; and the cache's own lists, counts and events agree.
OpenFilesKept ==
  /\ part = "file" => OF!HeldStaysOpen /\ OF!CacheKept
  /\ part = "files" => OT!HeldStaysOpen /\ OT!CacheKept

\* The shared zones: chunks of the slab allocator are disjoint, and all of them
\* in the lists that find them again; over it limit_req and limit_conn let no
\* more pass than the rate, the burst and the connections say, with entries that
\* are evicted when the zone is full.
ZonesSound == part = "zones" => ZO!SlabSound /\ ZO!LimitsHold
=============================================================================
