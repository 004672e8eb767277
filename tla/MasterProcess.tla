---------------------------- MODULE MasterProcess ----------------------------
(***************************************************************************)
(* The master process and its children: ngx_master_process_cycle,          *)
(* ngx_spawn_process, ngx_reap_children, ngx_signal_worker_processes, the  *)
(* channel (os/unix/ngx_channel.c) and what a child does with it.          *)
(*                                                                         *)
(* All signals are blocked while the master's loop body runs, so one step  *)
(* is one turn: the signals pending at sigsuspend() and the body.  The     *)
(* body is a composition of operators on a record s = [m, k, ...] of the   *)
(* master's state m and its children k.  Children run between turns.       *)
(* A pid is the child's index in kids, and a channel descriptor is named   *)
(* by the pid of the child it leads to.                                    *)
(***************************************************************************)
EXTENDS Integers, Sequences, FiniteSets, SequencesExt

CONSTANTS
  Scenarios,     \* the configurations and external events of a run
  MaxKids        \* more children than any behaviour of the run forks

\* What happens to the master: signals, and what goes wrong around it.
Events == {"hup", "winch", "usr1", "usr2", "quit", "term",     \* signals
           "crash", "fatal", "hang", "fork", "badconf"}
\* workers: worker_processes; cache: a cache path is configured, so that
\* there are a cache manager and a loader; slots: NGX_MAX_PROCESSES; cap:
\* messages a channel's socket buffer holds; limits: how often each event
\* happens at most.
ASSUME MasterAssumption ==
  /\ MaxKids \in Nat
  /\ \A c \in Scenarios :
       /\ c.workers \in Nat \ {0} /\ c.cache \in BOOLEAN
       /\ c.slots \in Nat \ {0} /\ c.cap \in Nat
       /\ c.limits \in [Events -> Nat]

VARIABLES
  conf,     \* the scenario, which never changes
  master,   \* flags and tables of the master
  kids,     \* the sequence of children ever forked
  sigs,     \* signals pending for the master
  used,     \* how often each event of conf.limits has happened
  hist      \* history: what has gone wrong outside the code

vars == <<conf, master, kids, sigs, used, hist>>

None  == 0            \* pid -1, channel -1
Stale == -1           \* descriptors that were closed but are still noted
InvalidPid == -1      \* NGX_INVALID_PID
Slots == 0..(conf.slots - 1)

\* ngx_process_t
FreeSlot == [pid |-> None, chan |-> None, kind |-> "none", exiting |-> FALSE,
             exited |-> FALSE, detached |-> FALSE, respawn |-> FALSE,
             just |-> FALSE]
\* The switch on the spawn type at the end of ngx_spawn_process().
\* Faulty variant: just_spawn is not set for the workers of a reload.
SpawnTypesNoJust ==
  [norespawn    |-> [respawn |-> FALSE, just |-> FALSE, detached |-> FALSE],
   just_spawn   |-> [respawn |-> FALSE, just |-> TRUE,  detached |-> FALSE],
   respawn      |-> [respawn |-> TRUE,  just |-> FALSE, detached |-> FALSE],
   just_respawn |-> [respawn |-> TRUE,  just |-> FALSE, detached |-> FALSE],
   detached     |-> [respawn |-> FALSE, just |-> FALSE, detached |-> TRUE]]
SpawnTypes ==
  [norespawn    |-> [respawn |-> FALSE, just |-> FALSE, detached |-> FALSE],
   just_spawn   |-> [respawn |-> FALSE, just |-> TRUE,  detached |-> FALSE],
   respawn      |-> [respawn |-> TRUE,  just |-> FALSE, detached |-> FALSE],
   just_respawn |-> [respawn |-> TRUE,  just |-> TRUE,  detached |-> FALSE],
   detached     |-> [respawn |-> FALSE, just |-> FALSE, detached |-> TRUE]]

Empty == [x \in Slots |-> None]
Gone(k) == [k EXCEPT !.st = "reaped", !.mail = <<>>, !.tbl = Empty,
                     !.quit = FALSE, !.term = FALSE]
Closed(k) == [k EXCEPT !.mail = <<>>, !.tbl = Empty]

-----------------------------------------------------------------------------
(* Channels                                                                *)

\* ngx_write_channel(): sendmsg() on a full socket returns EAGAIN, on a
\* closed descriptor EBADF.  A child that has died but is not reaped yet has
\* an open channel, since the master keeps both ends.
Writable(s, chan) == chan > 0 /\ Len(s.k[chan].mail) < conf.cap

\* The message goes to every slot of the set; nobody looks at the result.
Broadcast(s, to, msg) ==
  LET chans == {s.m.tab[i].chan : i \in to} IN
  [s EXCEPT
     !.k = [p \in DOMAIN s.k |->
              IF p \in chans /\ Writable(s, p) /\ s.k[p].st # "reaped"
              THEN [s.k[p] EXCEPT !.mail = Append(@, msg)] ELSE s.k[p]],
     !.lost = @ \/ \E c \in chans : ~Writable(s, c)]

\* ngx_pass_open_channel()
PassOpenChannel(s, slot) ==
  Broadcast(s,
            {i \in 0..(s.m.last - 1) : /\ i # slot
                                       /\ s.m.tab[i].pid # None
                                       /\ s.m.tab[i].chan # None},
            [cmd |-> "open", slot |-> slot, chan |-> s.m.tab[slot].chan])

-----------------------------------------------------------------------------
(* ngx_spawn_process()                                                     *)

\* The child inherits the master's table; its own channel[0] is closed.
Child(s, slot, kind) ==
  [st |-> "running", slot |-> slot, kind |-> kind, hung |-> FALSE,
   quit |-> FALSE, term |-> FALSE, code2 |-> FALSE, mail |-> <<>>,
   tbl |-> [x \in Slots |-> IF x = slot THEN None ELSE s.m.tab[x].chan]]

\* Whether the next fork() of this turn is the one that fails.
ForkFails(s) == s.forks + 1 = s.failAt

\* fork() (or a call that sets the channel up) fails: both descriptors are
\* closed but stay in the table; a detached child never had any.
SpawnFailed(s, slot, detached) ==
  [s EXCEPT !.forks = @ + 1, !.slot = slot, !.ok = FALSE, !.failed = TRUE,
            !.m.tab[slot].chan = IF detached THEN None ELSE Stale]

Respawn(s, slot) ==
  IF ForkFails(s) THEN SpawnFailed(s, slot, FALSE)
  ELSE LET pid == Len(s.k) + 1 IN
       [s EXCEPT !.forks = @ + 1, !.slot = slot, !.ok = TRUE,
                 !.k = Append(@, Child(s, slot, s.m.tab[slot].kind)),
                 !.m.tab[slot] = [@ EXCEPT !.pid = pid, !.chan = pid,
                                           !.exited = FALSE]]

Forked(s, kind, slot, pid, how) ==
  [s EXCEPT
     !.forks = @ + 1, !.slot = slot, !.ok = TRUE,
     !.k = Append(@, Child(s, slot, kind)),
     !.m.tab[slot] = [pid |-> pid, kind |-> kind,
                      chan |-> IF how.detached THEN None ELSE pid,
                      exiting |-> FALSE, exited |-> FALSE,
                      detached |-> how.detached,
                      respawn |-> how.respawn, just |-> how.just],
     !.m.last = IF slot = @ THEN @ + 1 ELSE @]

Spawn(s, kind, type) ==
  LET holes == {i \in 0..(s.m.last - 1) : s.m.tab[i].pid = None}
      how   == SpawnTypes[type]
      At(slot) == IF slot = conf.slots THEN [s EXCEPT !.ok = FALSE, !.failed = TRUE]
                  ELSE IF ForkFails(s) THEN SpawnFailed(s, slot, how.detached)
                  ELSE Forked(s, kind, slot, Len(s.k) + 1, how)
  IN At(IF holes = {} THEN s.m.last ELSE Min(holes))

\* The callers ignore a failed spawn and pass on whatever the slot says; a
\* closed descriptor cannot be passed.
SpawnAndPass(s, kind, type) ==
  LET Passed(t) == IF t.ok THEN PassOpenChannel(t, t.slot) ELSE t
  IN Passed(Spawn(s, kind, type))

StartWorkers(s, type) ==
  LET run[n \in 0..conf.workers] ==
        IF n = 0 THEN s ELSE SpawnAndPass(run[n - 1], "worker", type)
  IN run[conf.workers]
StartCacheManagers(s, again) ==
  IF ~conf.cache THEN s
  ELSE SpawnAndPass(
         SpawnAndPass(s, "manager", IF again THEN "just_respawn" ELSE "respawn"),
         "loader", IF again THEN "just_spawn" ELSE "norespawn")
StartAll(s, again) ==
  StartCacheManagers(
    StartWorkers(s, IF again THEN "just_respawn" ELSE "respawn"), again)

-----------------------------------------------------------------------------
(* ngx_signal_worker_processes()                                           *)

\* kill(pid, signo), as the handlers of a child take it.
\* Faulty variant: a child does not handle SIGQUIT.
KillNoQuit(k, cmd) ==
  CASE k.st # "running" \/ cmd \in {"quit", "reopen"} -> k
    [] k.st = "running" /\ cmd = "kill" -> [Closed(k) EXCEPT !.st = "zombie"]
    [] k.st = "running" /\ cmd = "terminate" -> [k EXCEPT !.term = TRUE]
Kill(k, cmd) ==
  IF k.st # "running" THEN k
  ELSE CASE cmd = "kill"      -> [Closed(k) EXCEPT !.st = "zombie"]
         [] cmd = "quit"      -> [k EXCEPT !.quit = TRUE]
         [] cmd = "terminate" -> [k EXCEPT !.term = TRUE]
         [] cmd = "reopen"    -> k

SignalOne(s, i, cmd) ==
  LET e == s.m.tab[i]
      sent   == [s EXCEPT !.k[e.chan].mail =
                     Append(@, [cmd |-> cmd, slot |-> i, chan |-> None])]
      killed == [s EXCEPT !.k[e.pid] = Kill(@, cmd)]
      Exiting(t) == IF cmd = "reopen" THEN t
                    ELSE [t EXCEPT !.m.tab[i].exiting = TRUE]
  IN IF i >= s.m.last \/ e.detached \/ e.pid = None THEN s
     ELSE IF e.just THEN [s EXCEPT !.m.tab[i].just = FALSE]
     ELSE IF e.exiting /\ cmd = "quit" THEN s
     ELSE IF cmd # "kill" /\ Writable(s, e.chan) THEN Exiting(sent)
     ELSE IF s.k[e.pid].st = "reaped"       \* ESRCH
     THEN [s EXCEPT !.m.tab[i] = [@ EXCEPT !.exited = TRUE, !.exiting = FALSE],
                    !.m.reap = TRUE]
     ELSE Exiting(killed)

SignalWorkers(s, cmd) ==
  LET run[n \in 0..conf.slots] ==
        IF n = 0 THEN s ELSE SignalOne(run[n - 1], n - 1, cmd)
  IN run[conf.slots]

-----------------------------------------------------------------------------
(* ngx_reap_children()                                                     *)

\* The message about an exited child.  ch.command is set before the loop and
\* again after a respawn, so it says "open" from the first respawn on, with
\* the respawned child's descriptor.
\* Faulty variant: the slot is that of the last spawn.
CloseMsgWrongSlot(s, i) == [cmd |-> "close", slot |-> s.slot, chan |-> None]
CloseMsg(s, i) ==
  IF s.chfd = None THEN [cmd |-> "close", slot |-> i, chan |-> None]
  ELSE [cmd |-> "open", slot |-> i, chan |-> s.chfd]

CloseChannels(s, i) ==
  IF s.m.tab[i].detached THEN s
  ELSE LET t == [s EXCEPT !.m.tab[i].chan = None]
       IN Broadcast(t, {n \in 0..(t.m.last - 1) : /\ ~t.m.tab[n].exited
                                                  /\ t.m.tab[n].pid # None
                                                  /\ t.m.tab[n].chan # None},
                    CloseMsg(t, i))

MayRespawn(s, i) ==
  s.m.tab[i].respawn /\ ~s.m.tab[i].exiting /\ ~s.m.terminate /\ ~s.m.quit

\* The new binary exited: the pid file gets its old name back, and workers
\* are started again if this master had stopped accepting.
NewBinaryGone(s) ==
  [s EXCEPT !.m.newBinary = None, !.m.pidfile = "pid",
            !.m.restart = @ \/ s.m.noaccepting, !.m.noaccepting = FALSE]

\* Faulty variant: the table always shrinks.
FreeEntryShrink(s, i) == [s EXCEPT !.m.last = @ - 1]
FreeEntry(s, i) ==
  IF i = s.m.last - 1 THEN [s EXCEPT !.m.last = @ - 1]
  ELSE [s EXCEPT !.m.tab[i].pid = None]

\* Whether a child that has not exited keeps the master alive.
CountsLive(e) == e.exiting \/ ~e.detached

ReapOne(s, i) ==
  LET e == s.m.tab[i]
      Again(r) == IF r.ok THEN PassOpenChannel([r EXCEPT !.chfd = r.m.tab[i].chan,
                                                         !.m.live = TRUE], i)
                  ELSE r
      Exited(c) == IF MayRespawn(c, i) THEN Again(Respawn(c, i))
                   ELSE FreeEntry(IF e.pid = s.m.newBinary THEN NewBinaryGone(c)
                                  ELSE c, i)
  IN IF i >= s.m.last \/ e.pid = None THEN s
     ELSE IF ~e.exited THEN [s EXCEPT !.m.live = @ \/ CountsLive(e)]
     ELSE Exited(CloseChannels(s, i))

ReapStart(s) ==
  [s EXCEPT !.m.live = FALSE, !.m.reap = FALSE,
            !.double = @ \/ Cardinality({i \in 0..(s.m.last - 1) :
                              s.m.tab[i].pid # None /\ s.m.tab[i].exited}) > 1]
ReapChildren(s) ==
  LET run[n \in 0..conf.slots] ==
        IF n = 0 THEN ReapStart(s) ELSE ReapOne(run[n - 1], n - 1)
  IN run[conf.slots]

-----------------------------------------------------------------------------
(* One turn of ngx_master_process_cycle()                                  *)

\* ngx_process_get_status(), from the SIGCHLD handler: waitpid() for every
\* zombie; exit code 2 forbids a respawn.
GetStatus(s) ==
  LET zombies == {p \in DOMAIN s.k : s.k[p].st = "zombie"} IN
  [s EXCEPT
     !.k = [p \in DOMAIN s.k |-> IF p \in zombies THEN Gone(s.k[p]) ELSE s.k[p]],
     !.m.tab = [i \in Slots |->
        IF i < s.m.last /\ s.m.tab[i].pid \in zombies
        THEN [s.m.tab[i] EXCEPT !.exited = TRUE,
                                !.respawn = @ /\ ~s.k[s.m.tab[i].pid].code2]
        ELSE s.m.tab[i]]]

\* ngx_signal_handler() for everything that is pending; USR2 is ignored while
\* a new binary runs.
Handle(s) ==
  LET t == [s EXCEPT !.m = [s.m EXCEPT
     !.quit = @ \/ "quit" \in sigs, !.terminate = @ \/ "term" \in sigs,
     !.reconfigure = @ \/ "hup" \in sigs, !.noaccept = @ \/ "winch" \in sigs,
     !.reopen = @ \/ "usr1" \in sigs,
     !.changeBinary = @ \/ ("usr2" \in sigs /\ s.m.newBinary <= 0),
     !.sigalrm = @ \/ "alrm" \in sigs, !.reap = @ \/ "chld" \in sigs]]
  IN IF "chld" \in sigs THEN GetStatus(t) ELSE t

\* A quick shutdown: TERM, again whenever the timer has doubled the delay or
\* enough wakeups have passed, and KILL when the delay exceeds a second.
TerminateTurn(s) ==
  LET t == [s EXCEPT !.m.delay = IF @ = 0 THEN 50 ELSE @] IN
  IF t.m.sigio > 0 THEN [t EXCEPT !.m.sigio = @ - 1]
  ELSE SignalWorkers([t EXCEPT !.m.sigio = conf.workers + 2],
                     IF t.m.delay > 1000 THEN "kill" ELSE "terminate")

QuitTurn(s) == [SignalWorkers(s, "quit") EXCEPT !.m.listening = FALSE]

\* ngx_reconfigure.  With ngx_new_binary set (-1 included) the configuration
\* is not read, the running workers are left alone, and live keeps its value.
ReconfigureNewBinary(s) ==
  [StartAll(s, FALSE) EXCEPT !.m.reconfigure = FALSE, !.m.noaccepting = FALSE]
Reconfigure(s, confOk) ==
  LET t == [s EXCEPT !.m.reconfigure = FALSE]
  IN IF confOk
     THEN SignalWorkers([StartAll(t, TRUE) EXCEPT !.m.live = TRUE], "quit")
     ELSE t

\* ngx_exec_new_binary(): rename the pid file, fork and exec.
ChangeBinary(s) ==
  LET Started(t) == IF t.ok THEN [t EXCEPT !.m.newBinary = t.m.tab[t.slot].pid,
                                           !.m.pidfile = "oldbin"]
                    ELSE [t EXCEPT !.m.newBinary = InvalidPid]
  IN Started(Spawn([s EXCEPT !.m.changeBinary = FALSE], "binary", "detached"))

Restart(s) ==
  IF ~s.m.restart THEN s
  ELSE [StartAll([s EXCEPT !.m.restart = FALSE], FALSE) EXCEPT !.m.live = TRUE]
Reopen(s) ==
  IF ~s.m.reopen THEN s
  ELSE SignalWorkers([s EXCEPT !.m.reopen = FALSE], "reopen")
MaybeChangeBinary(s) == IF s.m.changeBinary THEN ChangeBinary(s) ELSE s
NoAccept(s) ==
  IF ~s.m.noaccept THEN s
  ELSE SignalWorkers([s EXCEPT !.m.noaccept = FALSE, !.m.noaccepting = TRUE],
                     "quit")

\* ngx_master_process_exit(): the pid file goes by the name that
\* ngx_delete_pidfile() derives from ngx_new_binary.
Exit(s) ==
  [s EXCEPT !.m.st = "exited", !.m.listening = FALSE,
            !.m.pidfile = IF @ = (IF s.m.newBinary # None THEN "oldbin" ELSE "pid")
                          THEN "deleted" ELSE @]

\* The rest of the body, in the order of the code; "continue" ends a turn.
Body(s, confOk) ==
  IF ~s.m.live /\ (s.m.terminate \/ s.m.quit) THEN Exit(s)
  ELSE IF s.m.terminate THEN TerminateTurn(s)
  ELSE IF s.m.quit THEN QuitTurn(s)
  ELSE IF s.m.reconfigure /\ s.m.newBinary # None THEN ReconfigureNewBinary(s)
  ELSE IF s.m.reconfigure /\ ~confOk THEN Reconfigure(s, FALSE)
  ELSE NoAccept(MaybeChangeBinary(Reopen(Restart(
         IF s.m.reconfigure THEN Reconfigure(s, TRUE) ELSE s))))

\* The top of the loop: an alarm doubles the delay (1600 stands for all
\* larger ones) and clears sigio; the timer is set while delay is not 0.
Top(s) ==
  IF s.m.delay > 0 /\ s.m.sigalrm
  THEN [s EXCEPT !.m = [s.m EXCEPT !.sigio = 0, !.sigalrm = FALSE,
                                   !.delay = IF @ < 1600 THEN @ * 2 ELSE @]]
  ELSE s

State(failAt) ==
  [m |-> master, k |-> kids, forks |-> 0, failAt |-> failAt, ok |-> TRUE,
   slot |-> 0, chfd |-> None, lost |-> hist.lost, double |-> hist.double,
   failed |-> hist.failed]

Use(e) == used[e] < conf.limits[e] /\ used' = [used EXCEPT ![e] = @ + 1]

\* ESRCH sets ngx_reap without a signal: the turn still needs one to begin.
Wake(failAt, confOk) ==
  /\ master.st = "loop" /\ sigs # {}
  /\ failAt > 0 => confOk /\ used["fork"] < conf.limits["fork"]
  /\ confOk \/ ("hup" \in sigs /\ used["badconf"] < conf.limits["badconf"])
  /\ \E s \in {Handle(State(failAt))} :
     \E t \in {Top(Body(IF s.m.reap THEN ReapChildren(s) ELSE s, confOk))} :
        /\ master' = t.m
        /\ kids' = t.k
        /\ UNCHANGED conf
        /\ hist' = [lost |-> t.lost, double |-> t.double, failed |-> t.failed]
        /\ sigs' = IF \E p \in DOMAIN t.k : t.k[p].st = "zombie"
                   THEN {"chld"} ELSE {}
        /\ IF failAt > 0 THEN t.forks >= failAt /\ Use("fork")
           ELSE IF confOk THEN UNCHANGED used
           ELSE Use("badconf")

-----------------------------------------------------------------------------
(* The children                                                            *)

Alive(p) == p \in DOMAIN kids /\ kids[p].st = "running" /\ ~kids[p].hung
OneOf(p) == kids[p].kind # "binary"

\* ngx_channel_handler(): read until EAGAIN.  The master asked for SIGIO on
\* its end, which becomes writable.
Receive(k, msg) ==
  CASE msg.cmd = "quit"      -> [k EXCEPT !.quit = TRUE]
    [] msg.cmd = "terminate" -> [k EXCEPT !.term = TRUE]
    [] msg.cmd = "open"      -> [k EXCEPT !.tbl[msg.slot] = msg.chan]
    [] msg.cmd = "close"     -> [k EXCEPT !.tbl[msg.slot] = None]
    [] msg.cmd = "reopen"    -> k
ReceiveAll(k) ==
  LET run[n \in 0..Len(k.mail)] ==
        IF n = 0 THEN k ELSE Receive(run[n - 1], k.mail[n])
  IN [run[Len(k.mail)] EXCEPT !.mail = <<>>]
ChannelHandler(p) ==
  /\ Alive(p) /\ kids[p].mail # <<>>
  /\ kids' = [kids EXCEPT ![p] = ReceiveAll(@)]
  /\ sigs' = sigs \cup {"io"}
  /\ UNCHANGED <<conf, master, used, hist>>

Die(p, code2) ==
  /\ kids' = [kids EXCEPT ![p] = [Closed(@) EXCEPT !.st = "zombie",
                                     !.code2 = code2, !.hung = FALSE]]
  /\ sigs' = sigs \cup {"chld"}
  /\ UNCHANGED <<conf, master, hist>>

\* ngx_terminate, or ngx_quit once the last connection is done; the cache
\* loader also ends by itself, and the new binary when it is told to.
ExitChild(p) ==
  /\ Alive(p)
  /\ kids[p].quit \/ kids[p].term \/ kids[p].kind = "loader"
  /\ Die(p, FALSE) /\ UNCHANGED used
ExitBinary(p) ==
  /\ Alive(p) /\ kids[p].kind = "binary"
  /\ Die(p, FALSE) /\ UNCHANGED used
Crash(p) == p \in DOMAIN kids /\ kids[p].st = "running" /\ Use("crash") /\ Die(p, FALSE)
\* Initialisation of a child fails: exit(2).
Fatal(p) == Alive(p) /\ OneOf(p) /\ Use("fatal") /\ Die(p, TRUE)
\* A child that no longer returns to its event loop.
Hang(p) ==
  /\ Alive(p) /\ OneOf(p) /\ Use("hang")
  /\ kids' = [kids EXCEPT ![p].hung = TRUE]
  /\ UNCHANGED <<conf, master, sigs, hist>>

-----------------------------------------------------------------------------
(* Signals to the master.  A signal that is pending already is not queued. *)
Signal(e) ==
  /\ master.st = "loop" /\ e \notin sigs /\ Use(e)
  /\ sigs' = sigs \cup {e}
  /\ UNCHANGED <<conf, master, kids, hist>>
\* The interval timer of the termination cycle.
Alarm ==
  /\ master.st = "loop" /\ master.delay > 0 /\ "alrm" \notin sigs
  /\ sigs' = sigs \cup {"alrm"}
  /\ UNCHANGED <<conf, master, kids, used, hist>>

Blank ==
  [st |-> "loop", tab |-> [i \in Slots |-> FreeSlot], last |-> 0,
   live |-> TRUE, delay |-> 0, sigio |-> 0, newBinary |-> None,
   noaccepting |-> FALSE, listening |-> TRUE, pidfile |-> "pid",
   reap |-> FALSE, terminate |-> FALSE, quit |-> FALSE, restart |-> FALSE,
   reconfigure |-> FALSE, reopen |-> FALSE, changeBinary |-> FALSE,
   noaccept |-> FALSE, sigalrm |-> FALSE]

\* The master has forked its first children and enters the loop.
Init ==
  /\ conf \in Scenarios
  /\ LET s == StartAll([m |-> Blank, k |-> <<>>, forks |-> 0, failAt |-> 0,
                        ok |-> TRUE, slot |-> 0, chfd |-> None, lost |-> FALSE,
                        double |-> FALSE, failed |-> FALSE], FALSE)
     IN /\ master = s.m /\ kids = s.k
        /\ hist = [lost |-> s.lost, double |-> FALSE, failed |-> s.failed]
  /\ sigs = {}
  /\ used = [e \in Events |-> 0]

ChildStep(p) == ChannelHandler(p) \/ ExitChild(p)
Turn == \E failAt \in 0..(conf.workers + 2), confOk \in BOOLEAN : Wake(failAt, confOk)

Next ==
  \/ Turn \/ Alarm
  \/ \E e \in {"hup", "winch", "usr1", "usr2", "quit", "term"} : Signal(e)
  \/ \E p \in DOMAIN kids :
       ChildStep(p) \/ ExitBinary(p) \/ Crash(p) \/ Fatal(p) \/ Hang(p)

\* Pending signals are delivered, the timer fires, a child that is not hung
\* reads its channel and ends when it was told to.  Nothing else must happen.
\* (The first conjunct is WF_vars(Turn) with its enabling condition written
\* out.)
Fairness ==
  /\ <>[](master.st = "loop" /\ sigs # {}) => []<><<Turn>>_vars
  /\ WF_vars(Alarm)
  /\ \A p \in 1..MaxKids : WF_vars(ChannelHandler(p)) /\ WF_vars(ExitChild(p))

Spec == Init /\ [][Next]_vars
FairSpec == Spec /\ Fairness

-----------------------------------------------------------------------------
Chans == Nat \cup {Stale}
Kinds == {"none", "worker", "manager", "loader", "binary"}
ProcessType ==
  [pid : Nat, chan : Chans, kind : Kinds, exiting : BOOLEAN, exited : BOOLEAN,
   detached : BOOLEAN, respawn : BOOLEAN, just : BOOLEAN]
MasterType ==
  [st : {"loop", "exited"}, tab : [Slots -> ProcessType], last : 0..conf.slots,
   live : BOOLEAN, delay : Nat, sigio : Nat, newBinary : Nat \cup {InvalidPid},
   noaccepting : BOOLEAN, listening : BOOLEAN,
   pidfile : {"pid", "oldbin", "deleted"}, reap : BOOLEAN, terminate : BOOLEAN,
   quit : BOOLEAN, restart : BOOLEAN, reconfigure : BOOLEAN, reopen : BOOLEAN,
   changeBinary : BOOLEAN, noaccept : BOOLEAN, sigalrm : BOOLEAN]
MessageType ==
  [cmd : {"open", "close", "quit", "terminate", "reopen"}, slot : Slots, chan : Chans]
KidType ==
  [st : {"running", "zombie", "reaped"}, slot : Slots, kind : Kinds,
   hung : BOOLEAN, quit : BOOLEAN, term : BOOLEAN, code2 : BOOLEAN,
   mail : Seq(MessageType), tbl : [Slots -> Chans]]

\* The types.  The process table names only children that were forked, the new
\* binary is one of them or invalid, and no channel holds more than its buffer.
TypeOK ==
  /\ conf \in Scenarios /\ master \in MasterType /\ kids \in Seq(KidType)
  /\ \A i \in Slots : /\ master.tab[i].pid <= Len(kids)
                      /\ master.tab[i].chan <= Len(kids)
  /\ master.newBinary <= Len(kids)
  /\ \A p \in DOMAIN kids : Len(kids[p].mail) <= conf.cap
  /\ sigs \subseteq Events \cup {"chld", "alrm", "io"}
  /\ used \in [Events -> Nat]
  /\ hist \in [lost : BOOLEAN, double : BOOLEAN, failed : BOOLEAN]

Running == {p \in DOMAIN kids : kids[p].st = "running"}

\* The master never loses a child: while it runs, the process table has an
\* entry for every child that is running or waits to be reaped, so each can
\* be signalled and waited for, however slots are freed and used again.  The
\* state has its type.
EveryChildInTable ==
  /\ TypeOK
  /\ master.st = "loop" =>
       \A p \in DOMAIN kids : kids[p].st # "reaped" =>
         /\ kids[p].slot < master.last
         /\ master.tab[kids[p].slot].pid = p

\* man/nginx.8, SIGQUIT, "Shut down gracefully.": the master ends after its
\* children, it leaves nobody behind but a new binary.
NobodyLeftBehind ==
  master.st = "exited" => \A p \in Running : kids[p].kind = "binary"

\* That is so unless a binary upgrade was tried (ngx_new_binary is set).  The
\* pid file is removed when the master ends, also after a binary upgrade that
\* was abandoned.
MasterExitsLast ==
  /\ used["usr2"] = 0 => NobodyLeftBehind
  /\ master.st = "exited" /\ ~hist.failed => master.pidfile = "deleted"

\* No process is started once the master has been told to stop.
NoSpawnWhileStopping ==
  [][master'.quit \/ master'.terminate => Len(kids') = Len(kids)]_vars

\* The slots of workers that are neither exiting nor gone.
Serving == {i \in 0..(master.last - 1) :
              /\ master.tab[i].pid # None /\ master.tab[i].kind = "worker"
              /\ ~master.tab[i].exiting /\ ~master.tab[i].exited}

\* Outside a shutdown, with nothing pending, there are exactly as many
\* serving workers as configured: a crash is made good, a reload replaces
\* the workers one for one.
Quiet == /\ master.st = "loop" /\ sigs = {} /\ ~master.noaccepting
         /\ ~master.quit /\ ~master.terminate /\ ~master.reap
WorkersKept ==
  Quiet /\ ~hist.failed /\ used["fatal"] = 0 /\ used["usr2"] = 0 =>
    Cardinality(Serving) = conf.workers

\* A child that has read its channel knows the same descriptors as the master.
TablesAgree ==
  master.st = "loop" =>
    \A p \in Running : kids[p].mail = <<>> /\ OneOf(p) =>
      \A i \in Slots \ {kids[p].slot} : kids[p].tbl[i] = master.tab[i].chan

\* The open and close messages keep every child's table in step with the
\* master's, as long as no message is lost, no fork fails, and no two
\* children are reaped in the same turn (CloseMsg says why).
TablesFollow == ~hist.lost /\ ~hist.failed /\ ~hist.double => TablesAgree

\* A quick shutdown ends: TERM is followed by KILL for a child that hangs.
TerminateCompletes == master.terminate ~> master.st = "exited"

\* A graceful shutdown ends unless a child hangs.
QuitCompletes ==
  master.quit ~> master.st = "exited" \/ \E p \in Running : kids[p].hung

\* The master never loses a child, and it leaves after the last of them: over
\* all interleavings of signals, exits, failed forks and full channels.
ChildrenKept == EveryChildInTable /\ MasterExitsLast

\* Once told to stop the master starts nobody and gets to its end, with KILL
\* for children that hang if it was told to stop quickly.  (The fairness is
\* that of all children.)
ShutdownEnds ==
  /\ TerminateCompletes /\ QuitCompletes /\ NoSpawnWhileStopping
  /\ [](Len(kids) <= MaxKids)
==============================================================================
