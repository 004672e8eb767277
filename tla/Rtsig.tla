-------------------------------- MODULE Rtsig --------------------------------
(***************************************************************************)
(* Real-time signals as an event method (event/modules/ngx_rtsig_module.c) *)
(* and the recovery from an overflow of the queue of signals, in which all *)
(* connections are polled, a few at a time.                                *)
(***************************************************************************)
EXTENDS Integers, Sequences, FiniteSets, SequencesExt

CONSTANTS
  Connections,     \* cycle->connection_n
  Files,           \* cycle->files_n, at least Connections
  Listening,       \* the descriptors of listening sockets
  QueueLen,        \* the kernel's limit of queued signals
  OverflowEvents,  \* rtsig_overflow_events
  OverflowTest     \* rtsig_overflow_test

VARIABLES
  conn,      \* per descriptor: [active, disabled, instance]
  fresh,     \* descriptors with something new that no handler has seen
  queue,     \* queued signals: [fd, instance]
  sigio,     \* SIGIO is pending
  overflow, current, tested,   \* overflow, overflow_current, tested
  batch,     \* overflow_list after poll(), what is left of it
  lost       \* history: those of fresh that the recovery does not come to

vars == <<conn, fresh, queue, sigio, overflow, current, tested, batch, lost>>

Fds == 0..(Files - 1)

(* the descriptors that the recovery never comes to *)
Beyond == {f \in Fds : f >= Connections}

Init ==
  /\ conn = [f \in Fds |-> [active |-> FALSE, disabled |-> FALSE, instance |-> 0]]
  /\ fresh = {} /\ queue = <<>> /\ sigio = FALSE
  /\ overflow = FALSE /\ current = 0 /\ tested = 0 /\ batch = <<>>
  /\ lost = {}

(* The kernel: something arrives at a descriptor, and a signal is queued or,
   when the queue is full, SIGIO is raised instead *)
Arrives(f) ==
  /\ conn[f].active
  /\ fresh' = fresh \cup {f}
  /\ IF Len(queue) < QueueLen
     THEN queue' = Append(queue, [fd |-> f, instance |-> conn[f].instance]) /\ UNCHANGED sigio
     ELSE sigio' = TRUE /\ UNCHANGED queue
  /\ lost' = IF overflow /\ f \in Beyond THEN lost \cup {f} ELSE lost \ {f}
  /\ UNCHANGED <<conn, overflow, current, tested, batch>>

(* ngx_get_connection() and ngx_rtsig_add_connection() for a descriptor in use
   again; a socket that is readable before it has its own signal is tried by
   its handler at once *)
AddConnection(f) ==
  /\ ~conn[f].active /\ ~conn[f].disabled
  /\ conn' = [conn EXCEPT ![f].active = TRUE, ![f].instance = 1 - @]
  /\ UNCHANGED <<fresh, queue, sigio, overflow, current, tested, batch, lost>>

(* ... and for a listening socket when the worker has the accept mutex again *)
EnableAccept(f) ==
  /\ conn[f].disabled
  /\ conn' = [conn EXCEPT ![f].active = TRUE, ![f].disabled = FALSE]
  /\ UNCHANGED <<fresh, queue, sigio, overflow, current, tested, batch, lost>>

(* ngx_rtsig_del_connection() with NGX_CLOSE_EVENT: queued signals stay *)
DelConnection(f) ==
  /\ conn[f].active
  /\ conn' = [conn EXCEPT ![f].active = FALSE]
  /\ fresh' = fresh \ {f} /\ lost' = lost \ {f}
  /\ UNCHANGED <<queue, sigio, overflow, current, tested, batch>>

(* ... and with NGX_DISABLE_EVENT: the clients that wait are now those of the
   worker that holds the accept mutex *)
DisableAccept(f) ==
  /\ f \in Listening /\ conn[f].active
  /\ conn' = [conn EXCEPT ![f].active = FALSE, ![f].disabled = TRUE]
  /\ fresh' = fresh \ {f} /\ lost' = lost \ {f}
  /\ UNCHANGED <<queue, sigio, overflow, current, tested, batch>>

(* a mutant: the descriptor that is polled next is also left to the poll, and
   so is the one before it *)
SkipSignalOne(f) == overflow /\ f >= current - 1

(* ngx_rtsig_process_events(): one signal *)
SkipSignal(f) == overflow /\ f > current

Signalled ==
  /\ queue # <<>>
  /\ queue' = Tail(queue)
  /\ LET x == Head(queue) IN
     IF SkipSignal(x.fd) \/ conn[x.fd].instance # x.instance \/ ~conn[x.fd].active
     THEN UNCHANGED <<fresh, lost>>
     ELSE fresh' = fresh \ {x.fd} /\ lost' = lost \ {x.fd}

TakeSignal ==
  /\ ~overflow /\ Signalled
  /\ UNCHANGED <<conn, sigio, overflow, current, tested, batch>>

(* SIGIO: the queue may be dropped, the recovery starts from descriptor 0 *)
Sigio ==
  /\ sigio /\ sigio' = FALSE
  /\ queue' \in {queue, <<>>}
  /\ overflow' = TRUE /\ current' = 0
  /\ lost' = lost \cup (fresh \cap Beyond)
  /\ UNCHANGED <<conn, fresh>>

TakeSigio ==
  /\ ~overflow /\ Sigio
  /\ tested' = 0 /\ batch' = <<>>

(* ngx_rtsig_process_overflow(): the next descriptors are collected ... *)
Collected ==
  LET step(acc, f) == IF Len(acc.fds) >= OverflowEvents THEN acc
                      ELSE [next |-> f + 1,
                            fds |-> IF conn[f].active THEN Append(acc.fds, f) ELSE acc.fds]
  IN FoldLeft(step, [next |-> current, fds |-> <<>>],
              [i \in 1..(Connections - current) |-> current + i - 1])

(* ... and polled; one that has nothing new is reported as nothing.  When poll()
   fails, but for EINTR, the loop goes on with the next ones. *)
Collect ==
  /\ overflow /\ batch = <<>> /\ tested < OverflowTest
  /\ LET c == Collected IN
     /\ current' = c.next
     /\ IF c.fds = <<>>
        THEN overflow' = FALSE /\ tested' = 0 /\ UNCHANGED <<batch, lost>>
        ELSE /\ \/ batch' = SelectSeq(c.fds, LAMBDA f : f \in fresh) /\ lost' = lost
                \/ batch' = <<>> /\ lost' = lost \cup (fresh \cap ToSet(c.fds))
             /\ UNCHANGED <<overflow, tested>>
  /\ UNCHANGED <<conn, fresh, queue, sigio>>

(* a handler is called for what poll() reported *)
Handle ==
  /\ overflow /\ batch # <<>>
  /\ batch' = Tail(batch)
  /\ IF conn[Head(batch)].active
     THEN /\ fresh' = fresh \ {Head(batch)} /\ lost' = lost \ {Head(batch)}
          /\ tested' = IF tested < OverflowTest THEN tested + 1 ELSE tested
     ELSE UNCHANGED <<fresh, lost, tested>>
  /\ UNCHANGED <<conn, queue, sigio, overflow, current>>

(* after some handlers the queue is emptied, unless it is short, lest it
   overflow again; when it did, the recovery starts again *)
Test ==
  /\ overflow /\ batch = <<>> /\ tested >= OverflowTest
  /\ \/ Signalled /\ UNCHANGED <<conn, sigio, overflow, current, tested, batch>>
     \/ Sigio /\ tested' = 0 /\ UNCHANGED batch
     \/ tested' = 0 /\ UNCHANGED <<conn, fresh, queue, sigio, overflow, current, batch, lost>>

Next ==
  \/ \E f \in Fds : Arrives(f) \/ AddConnection(f) \/ DelConnection(f)
                      \/ EnableAccept(f) \/ DisableAccept(f)
  \/ TakeSignal \/ TakeSigio \/ Collect \/ Handle \/ Test

Spec == Init /\ [][Next]_vars
----------------------------------------------------------------------------
(* Properties *)

(* Nothing that arrives is forgotten, whatever overflows: its signal is queued,
   or SIGIO is pending, or the recovery is still to come to its descriptor.
   Not so the descriptors whose poll() failed, and those from connection_n on,
   which ngx_rtsig_process_overflow() does not poll: once the queue overflowed
   they wait for the next arrival (`lost`). *)
NoneForgotten ==
  \A f \in fresh \ lost :
    \/ \E i \in DOMAIN queue : queue[i].fd = f /\ queue[i].instance = conn[f].instance
                               /\ ~SkipSignal(f)
    \/ sigio
    \/ overflow /\ (f >= current \/ f \in ToSet(batch))
==============================================================================
