----------------------------- MODULE AcceptMutex -----------------------------
(***************************************************************************)
(* The accept mutex: the event loop of the workers (event/ngx_event.c),    *)
(* accepting (event/ngx_event_accept.c), a worker's graceful exit, its     *)
(* crash, and the master reaping it (os/unix/ngx_process.c).               *)
(*                                                                         *)
(* The mutex is an ngx_shmtx_t that is only ever tried, so its word is     *)
(* either Unlocked or Locked: a trylock is one step here (ShMutex has the  *)
(* two halves apart).  The word does not name its owner; the variable      *)
(* owner is a history variable of the model.                               *)
(***************************************************************************)
EXTENDS Integers, FiniteSets

CONSTANTS
  Workers,          \* worker processes
  Nobody,           \* "no worker"
  NListeners,       \* cycle->listening.nelts
  Slots,            \* connection_n less the listening and channel connections
  Eighth,           \* connection_n / 8
  InitConns,        \* client connections each worker starts with
  MultiAccept,      \* ecf->multi_accept
  MaxClients,       \* bound: clients that connect in a behaviour
  MaxCtlErrors,     \* bound: failed epoll_ctl() calls, EEXIST not counted
  MaxAcceptErrors,  \* bound: accept() errors other than EAGAIN
  MaxCrashes,       \* bound: workers that die abnormally
  MaxQuits          \* bound: workers told to quit

\* The two values of the word; neither is the pid of a worker.
Unlocked  == "unlocked"
Locked    == "0x80000000"

ASSUME AcceptMutexAssumption ==
  /\ IsFiniteSet(Workers) /\ Nobody \notin Workers /\ Locked \notin Workers
  /\ NListeners \in Nat \ {0} /\ Slots \in Nat /\ Eighth \in Nat
  /\ InitConns \in 0..Slots /\ MultiAccept \in BOOLEAN
  /\ MaxClients \in Nat /\ MaxCtlErrors \in Nat /\ MaxAcceptErrors \in Nat
  /\ MaxCrashes \in Nat /\ MaxQuits \in Nat

VARIABLES
  lock,       \* *ngx_accept_mutex_ptr: Unlocked or Locked
  owner,      \* history: the worker whose trylock set the word last
  stray,      \* history: some worker released a mutex it did not own
  pc,         \* where each worker stands in ngx_worker_process_cycle
  held,       \* ngx_accept_mutex_held
  use,        \* ngx_use_accept_mutex
  disabled,   \* ngx_accept_disabled
  post,       \* flags & NGX_POST_EVENTS of the current turn
  active,     \* listeners whose read event is registered with epoll
  ready,      \* accept events of this turn whose handler has not run yet
  conns,      \* client connections of the worker
  exiting,    \* ngx_exiting
  backlog,    \* connections waiting in each listening socket
  faults      \* how often each bounded fault has happened

wvars == <<pc, held, use, disabled, post, active, ready, conns, exiting>>
vars  == <<lock, owner, stray, wvars, backlog, faults>>

Listeners == 1..NListeners
PcNames   == {"top", "poll", "handlers", "unlock", "rest", "signals",
              "dead", "exited"}
Running   == {w \in Workers : pc[w] \notin {"dead", "exited"}}
Bound     == [clients |-> MaxClients, ctl |-> MaxCtlErrors,
              accept |-> MaxAcceptErrors, crash |-> MaxCrashes,
              quit |-> MaxQuits]

Count(f)  == faults[f] < Bound[f] /\ faults' = [faults EXCEPT ![f] = @ + 1]
Set(v, w, x) == [v EXCEPT ![w] = x]

\* ngx_event_module_init() zeroes the word; ngx_event_process_init() of a
\* worker leaves every listening event unregistered.
Init ==
  /\ lock = Unlocked /\ owner = Nobody /\ stray = FALSE
  /\ pc = [w \in Workers |-> "top"]
  /\ held = [w \in Workers |-> FALSE]
  /\ use = [w \in Workers |-> TRUE]
  /\ disabled = [w \in Workers |-> 0]
  /\ post = [w \in Workers |-> FALSE]
  /\ active = [w \in Workers |-> {}]
  /\ ready = [w \in Workers |-> {}]
  /\ conns = [w \in Workers |-> InitConns]
  /\ exiting = [w \in Workers |-> FALSE]
  /\ backlog = [l \in Listeners |-> 0]
  /\ faults = [f \in DOMAIN Bound |-> 0]

-----------------------------------------------------------------------------
(* ngx_process_events_and_timers(), up to ngx_process_events().            *)

\* A worker that is over the accept threshold does not try the mutex.
TurnDisabled(w) ==
  /\ pc[w] = "top" /\ use[w] /\ disabled[w] > 0
  /\ disabled' = Set(disabled, w, disabled[w] - 1)
  /\ post' = Set(post, w, FALSE)
  /\ pc' = Set(pc, w, "poll")
  /\ UNCHANGED <<lock, owner, stray, held, use, active, ready, conns,
                 exiting, backlog, faults>>

\* Without the mutex (the worker is exiting) the loop only waits.
TurnPlain(w) ==
  /\ pc[w] = "top" /\ ~use[w] /\ conns[w] > 0
  /\ post' = Set(post, w, FALSE)
  /\ pc' = Set(pc, w, "poll")
  /\ UNCHANGED <<lock, owner, stray, held, use, disabled, active, ready,
                 conns, exiting, backlog, faults>>

Tries(w) == pc[w] = "top" /\ use[w] /\ disabled[w] <= 0

\* ngx_trylock_accept_mutex(): the mutex is taken, and the listening events
\* are registered unless they still are from an earlier turn.
TurnLocked(w) ==
  /\ Tries(w) /\ lock = Unlocked
  /\ held[w] \/ active[w] = {}      \* EPOLL_CTL_ADD of a registered fd fails
  /\ lock' = Locked /\ owner' = w
  /\ active' = Set(active, w, IF held[w] THEN active[w] ELSE Listeners)
  /\ held' = Set(held, w, TRUE)
  /\ post' = Set(post, w, TRUE)
  /\ pc' = Set(pc, w, "poll")
  /\ UNCHANGED <<stray, use, disabled, ready, conns, exiting, backlog, faults>>

\* ngx_enable_accept_events() fails at listener l: at one that is registered
\* already (EEXIST), or for a reason of the kernel's.  The earlier ones stay
\* registered, the mutex is released and the turn ends with NGX_ERROR.
TurnEnableError(w, l) ==
  /\ Tries(w) /\ lock = Unlocked /\ ~held[w]
  /\ \A k \in 1..(l - 1) : k \notin active[w]
  /\ IF l \in active[w] THEN UNCHANGED faults ELSE Count("ctl")
  /\ active' = Set(active, w, active[w] \cup 1..(l - 1))
  /\ pc' = Set(pc, w, "signals")
  /\ UNCHANGED <<lock, owner, stray, held, use, disabled, post, ready, conns,
                 exiting, backlog>>

\* Faulty variant: neither the events nor ngx_accept_mutex_held are reset.
TurnRefusedStale(w) ==
  /\ Tries(w) /\ lock = Locked
  /\ post' = Set(post, w, held[w])
  /\ pc' = Set(pc, w, "poll")
  /\ UNCHANGED <<lock, owner, stray, held, use, disabled, active, ready, conns,
                 exiting, backlog, faults>>
\* The mutex is taken by another worker: ngx_disable_accept_events().
TurnRefused(w) ==
  /\ Tries(w) /\ lock = Locked
  /\ active' = Set(active, w, IF held[w] THEN {} ELSE active[w])
  /\ held' = Set(held, w, FALSE)
  /\ post' = Set(post, w, FALSE)
  /\ pc' = Set(pc, w, "poll")
  /\ UNCHANGED <<lock, owner, stray, use, disabled, ready, conns, exiting,
                 backlog, faults>>

\* It fails at listener l, a registered one: those before l are gone, the
\* flag stays set and the turn ends with NGX_ERROR.
TurnDisableError(w, l) ==
  /\ Tries(w) /\ lock = Locked /\ held[w] /\ l \in active[w]
  /\ Count("ctl")
  /\ active' = Set(active, w, {k \in active[w] : k >= l})
  /\ pc' = Set(pc, w, "signals")
  /\ UNCHANGED <<lock, owner, stray, held, use, disabled, post, ready, conns,
                 exiting, backlog>>

-----------------------------------------------------------------------------
(* ngx_epoll_process_events() and the accept handlers.  A turn that holds  *)
(* the mutex posts the accept events and runs them right after the wait;   *)
(* any other turn runs them from the wait itself.                          *)

\* epoll_wait() reports every registered listener with a waiting connection.
Poll(w) ==
  /\ pc[w] = "poll"
  /\ ready' = Set(ready, w, {l \in active[w] : backlog[l] > 0})
  /\ pc' = Set(pc, w, "handlers")
  /\ UNCHANGED <<lock, owner, stray, held, use, disabled, post, active, conns,
                 exiting, backlog, faults>>

\* The handler is done with listener l unless multi_accept lets it go on.
Again(w, l) == ready' = Set(ready, w, ready[w] \ (IF MultiAccept THEN {} ELSE {l}))
Done(w, l)  == ready' = Set(ready, w, ready[w] \ {l})
Handling(w, l) == pc[w] = "handlers" /\ l \in ready[w]

\* One turn of the loop in ngx_event_accept().  The threshold is taken from
\* the free connections before this one is allocated; with none left
\* ngx_drain_connections() closes up to 32 reusable ones.
Threshold(w) == Eighth - (Slots - conns[w])
Accept(w, l) ==
  /\ Handling(w, l) /\ backlog[l] > 0
  /\ backlog' = [backlog EXCEPT ![l] = @ - 1]
  /\ disabled' = Set(disabled, w, Threshold(w))
  /\ \/ \E drained \in 0..32 :
          /\ drained <= conns[w] /\ (conns[w] < Slots => drained = 0)
          /\ conns[w] - drained < Slots
          /\ conns' = Set(conns, w, conns[w] - drained + 1)
          /\ Again(w, l)
     \/ \* no connection, or ngx_close_accepted_connection() after an error
          /\ Done(w, l)
          /\ conns[w] = Slots \/ faults["accept"] < MaxAcceptErrors
          /\ UNCHANGED conns
  /\ faults' = IF conns' = conns /\ conns[w] < Slots
               THEN [faults EXCEPT !["accept"] = @ + 1] ELSE faults
  /\ UNCHANGED <<lock, owner, stray, pc, held, use, post, active, exiting>>

\* accept() finds nothing: another worker was faster, or the loop is through.
AcceptAgain(w, l) ==
  /\ Handling(w, l) /\ backlog[l] = 0
  /\ Done(w, l)
  /\ UNCHANGED <<lock, owner, stray, pc, held, use, disabled, post, active,
                 conns, exiting, backlog, faults>>

\* accept() fails: ECONNABORTED consumes the connection and lets multi_accept
\* go on, any other error (EMFILE, ...) leaves it waiting.
AcceptError(w, l) ==
  /\ Handling(w, l) /\ backlog[l] > 0
  /\ Count("accept")
  /\ \/ Again(w, l) /\ backlog' = [backlog EXCEPT ![l] = @ - 1]
     \/ Done(w, l) /\ UNCHANGED backlog
  /\ UNCHANGED <<lock, owner, stray, pc, held, use, disabled, post, active,
                 conns, exiting>>

HandlersDone(w) ==
  /\ pc[w] = "handlers" /\ ready[w] = {}
  /\ pc' = Set(pc, w, "unlock")
  /\ UNCHANGED <<lock, owner, stray, held, use, disabled, post, active, ready,
                 conns, exiting, backlog, faults>>

-----------------------------------------------------------------------------
\* if (ngx_accept_mutex_held) ngx_shmtx_unlock(&ngx_accept_mutex).  The flag
\* is still set in a turn that did not try the mutex, and ngx_shmtx_unlock
\* clears the word whoever set it.
\* Faulty variant: the mutex is kept to the next turn.
ReleaseKeep(w) ==
  /\ pc[w] = "unlock"
  /\ pc' = Set(pc, w, "rest")
  /\ UNCHANGED <<lock, owner, stray, held, use, disabled, post, active, ready,
                 conns, exiting, backlog, faults>>
Release(w) ==
  /\ pc[w] = "unlock"
  /\ lock' = IF held[w] THEN Unlocked ELSE lock
  /\ owner' = IF held[w] THEN Nobody ELSE owner
  /\ stray' = (stray \/ (held[w] /\ owner \notin {w, Nobody}))
  /\ pc' = Set(pc, w, "rest")
  /\ UNCHANGED <<held, use, disabled, post, active, ready, conns, exiting,
                 backlog, faults>>

\* Timers and posted events: some client connections are closed.
Rest(w) ==
  /\ pc[w] = "rest"
  /\ \E closed \in 0..conns[w] : conns' = Set(conns, w, conns[w] - closed)
  /\ pc' = Set(pc, w, "signals")
  /\ UNCHANGED <<lock, owner, stray, held, use, disabled, post, active, ready,
                 exiting, backlog, faults>>

-----------------------------------------------------------------------------
(* The end of ngx_worker_process_cycle()'s loop, and the beginning of the  *)
(* next turn.                                                              *)
Loop(w) ==
  /\ pc[w] = "signals"
  /\ pc' = Set(pc, w, "top")
  /\ UNCHANGED <<lock, owner, stray, held, use, disabled, post, active, ready,
                 conns, exiting, backlog, faults>>

\* ngx_quit: ngx_close_listening_sockets().
QuitWorker(w) ==
  /\ pc[w] = "signals" /\ ~exiting[w]
  /\ Count("quit")
  /\ held' = Set(held, w, FALSE)
  /\ use' = Set(use, w, FALSE)
  /\ active' = Set(active, w, {})
  /\ exiting' = Set(exiting, w, TRUE)
  /\ pc' = Set(pc, w, "top")
  /\ UNCHANGED <<lock, owner, stray, disabled, post, ready, conns, backlog>>

\* ngx_exiting and no timer left; every client connection has a timer.
ExitWorker(w) ==
  /\ pc[w] = "top" /\ exiting[w] /\ conns[w] = 0
  /\ pc' = Set(pc, w, "exited")
  /\ UNCHANGED <<lock, owner, stray, held, use, disabled, post, active, ready,
                 conns, exiting, backlog, faults>>

\* A worker dies anywhere; the kernel closes its descriptors.
Crash(w) ==
  /\ w \in Running
  /\ Count("crash")
  /\ pc' = Set(pc, w, "dead")
  /\ active' = Set(active, w, {})
  /\ ready' = Set(ready, w, {})
  /\ conns' = Set(conns, w, 0)
  /\ UNCHANGED <<lock, owner, stray, held, use, disabled, post, exiting,
                 backlog>>

\* ngx_process_get_status(): ngx_atomic_cmp_set(ngx_accept_mutex_ptr, pid, 0)
\* compares the word with the pid of the dead worker.
AfterReap(w) == IF lock = w THEN Unlocked ELSE lock

\* The master reaps a crashed worker and respawns it, with new process state.
Reap(w) ==
  /\ pc[w] = "dead"
  /\ lock' = AfterReap(w)
  /\ owner' = IF lock' = Unlocked THEN Nobody ELSE owner
  /\ pc' = Set(pc, w, "top")
  /\ held' = Set(held, w, FALSE)
  /\ use' = Set(use, w, TRUE)
  /\ disabled' = Set(disabled, w, 0)
  /\ post' = Set(post, w, FALSE)
  /\ exiting' = Set(exiting, w, FALSE)
  /\ UNCHANGED <<stray, active, ready, conns, backlog, faults>>

Connect(l) ==
  /\ Count("clients")
  /\ backlog' = [backlog EXCEPT ![l] = @ + 1]
  /\ UNCHANGED <<lock, owner, stray, wvars>>

-----------------------------------------------------------------------------
Turn(w) ==
  \/ TurnDisabled(w) \/ TurnPlain(w) \/ TurnLocked(w) \/ TurnRefused(w)
  \/ \E l \in Listeners : TurnEnableError(w, l) \/ TurnDisableError(w, l)
Handlers(w) ==
  \/ HandlersDone(w)
  \/ \E l \in Listeners : Accept(w, l) \/ AcceptAgain(w, l) \/ AcceptError(w, l)
Step(w) ==
  \/ Turn(w) \/ Poll(w) \/ Handlers(w) \/ Release(w) \/ Rest(w)
  \/ Loop(w) \/ ExitWorker(w)

Next ==
  \/ \E w \in Workers : Step(w) \/ QuitWorker(w) \/ Crash(w) \/ Reap(w)
  \/ \E l \in Listeners : Connect(l)

\* A worker's loop keeps turning; nothing else is obliged to happen.
Spec     == Init /\ [][Next]_vars
FairSpec == Spec /\ \A w \in Workers : WF_vars(Step(w))

-----------------------------------------------------------------------------
\* The variables of the event loop have their types; a worker never has more
\* connections than slots.
TypeOK ==
  /\ lock \in {Unlocked, Locked} /\ owner \in Workers \cup {Nobody}
  /\ stray \in BOOLEAN
  /\ pc \in [Workers -> PcNames]
  /\ held \in [Workers -> BOOLEAN] /\ use \in [Workers -> BOOLEAN]
  /\ disabled \in [Workers -> Int] /\ post \in [Workers -> BOOLEAN]
  /\ active \in [Workers -> SUBSET Listeners]
  /\ ready \in [Workers -> SUBSET Listeners]
  /\ conns \in [Workers -> 0..Slots] /\ exiting \in [Workers -> BOOLEAN]
  /\ backlog \in [Listeners -> Nat] /\ faults \in [DOMAIN Bound -> Nat]

\* The turn of a worker that took the mutex, up to its release.
Inside(w) == post[w] /\ pc[w] \in {"poll", "handlers", "unlock"}

\* Accept handlers of turns that took the mutex never run in two workers at
\* once: as long as no worker has released somebody else's mutex, whoever is
\* inside such a turn owns it.  The state has its type.
AcceptExclusive ==
  /\ TypeOK
  /\ ~stray => \A w \in Workers : Inside(w) => owner = w /\ lock = Locked

\* A worker outside a turn that took the mutex never leaves it locked: at the
\* top of its loop, waiting without it, or gone after a graceful exit.
NotLeftLocked ==
  faults["crash"] = 0 => \A w \in Workers : owner = w => Inside(w)

\* The first time the mutex is released under its owner, the culprit is a
\* worker that skipped trylock because it is over the accept threshold and
\* whose ngx_accept_mutex_held is still set from an earlier turn.  (After that
\* the worker that lost the mutex releases its successor's in turn.)
FirstStrayIsDisabled ==
  [][~stray /\ stray' =>
       \E d \in Workers : /\ pc[d] = "unlock" /\ pc'[d] = "rest"
                          /\ held[d] /\ ~post[d] /\ owner # d]_vars

\* Where the listening events are registered: a worker that is shutting down
\* accepts nothing more; with no failed epoll_ctl(), a
\* running worker has all of them if ngx_accept_mutex_held is set and none
\* otherwise, so at the top of the loop a worker that lost the mutex to
\* another one does not wake up for connections after one more turn.
ListenersFollowFlag ==
  /\ \A w \in Workers : exiting[w] => active[w] = {} /\ ready[w] = {}
  /\ faults["ctl"] = 0 =>
       \A w \in Running : active[w] = IF held[w] THEN Listeners ELSE {}

\* Whoever accepts holds the mutex, whoever leaves its turn has released it,
\* and the listening sockets are watched by its holder alone: the three faces
\* of "only one worker waits for connections", over the interleavings of the
\* turns of the workers and what is released or lost between them.
AcceptSerialized == AcceptExclusive /\ NotLeftLocked /\ ListenersFollowFlag

\* A connection waiting in a listening socket is accepted, in the end, by
\* some worker: without a crash or a failed epoll_ctl() the mutex never keeps
\* all of them away from it.
Disturbed == faults["ctl"] > 0 \/ faults["crash"] > 0
BacklogServed ==
  \A l \in Listeners : backlog[l] > 0 ~> backlog[l] = 0 \/ Disturbed

\* ngx_process.c:510: "unlock the accept mutex if the abnormally exited
\* process held it": once the master has reaped a crashed worker and started
\* it again, the mutex is not left with the dead process.
ReapedHoldsNothing ==
  \A w \in Workers : owner = w /\ lock = Locked => Inside(w) \/ pc[w] = "dead"
==============================================================================
