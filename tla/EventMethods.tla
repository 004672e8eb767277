---------------------------- MODULE EventMethods ----------------------------
(***************************************************************************)
(* The event methods beside epoll: event/modules/ngx_select_module.c,      *)
(* ngx_poll_module.c, ngx_devpoll_module.c, ngx_kqueue_module.c and        *)
(* ngx_eventport_module.c.  Each keeps a list of its own, of events or of  *)
(* changes for the kernel, and an index into it in every event; what it    *)
(* must keep true is the same: the kernel watches the active events.       *)
(***************************************************************************)
EXTENDS Integers, Sequences, FiniteSets, SequencesExt

CONSTANTS
  Fds,          \* descriptors, numbers from 1
  Methods,
  MaxChanges    \* devpoll_changes, kqueue_changes

VARIABLES
  method,
  open,      \* descriptors of connections
  ev,        \* per descriptor and direction: the ngx_event_t
  list,      \* event_index, event_list or change_list
  kern,      \* what the kernel watches: pairs of descriptor and direction
  maxfd,     \* max_fd of select, -1 when it must be found again
  alert      \* a message that should never be logged was

vars == <<method, open, ev, list, kern, maxfd, alert>>

Dirs == {"r", "w"}
Other(d) == IF d = "r" THEN "w" ELSE "r"
NoEvent == [active |-> FALSE, index |-> 0, oneshot |-> FALSE]

Init ==
  /\ method \in Methods
  /\ open = {}
  /\ ev = [f \in Fds |-> [d \in Dirs |-> NoEvent]]
  /\ list = <<>> /\ kern = {} /\ maxfd = -1 /\ alert = FALSE

(* the state that the operators below change, as one record *)
Now == [ev |-> ev, list |-> list, kern |-> kern, maxfd |-> maxfd, alert |-> alert]
Become(s) == /\ ev' = s.ev /\ list' = s.list /\ kern' = s.kern
             /\ maxfd' = s.maxfd /\ alert' = s.alert

(* the last entry takes the place i *)
Without(s, i) == IF i = Len(s) THEN Front(s) ELSE [Front(s) EXCEPT ![i] = Last(s)]
----------------------------------------------------------------------------
(* select: event_index[] holds the events, the sets of descriptors are copied
   for every call *)
SelectAdd(s, f, d) ==
  IF s.ev[f][d].index # 0 THEN [s EXCEPT !.alert = TRUE]
  ELSE [s EXCEPT !.kern = @ \cup {<<f, d>>},
                 !.maxfd = IF @ # -1 /\ @ < f THEN f ELSE @,
                 !.list = Append(@, <<f, d>>),
                 !.ev[f][d].active = TRUE, !.ev[f][d].index = Len(s.list) + 1]

(* a mutant: the event that moves keeps its index *)
SelectDelStale(s, f, d) ==
  LET i == s.ev[f][d].index IN
  IF i = 0 THEN [s EXCEPT !.ev[f][d].active = FALSE]
  ELSE [s EXCEPT !.kern = @ \ {<<f, d>>}, !.maxfd = IF @ = f THEN -1 ELSE @,
                 !.list = Without(@, i), !.ev[f][d] = NoEvent]

SelectDel(s, f, d) ==
  LET i == s.ev[f][d].index
      e == Last(s.list)
      moved == IF i = Len(s.list) THEN s.ev ELSE [s.ev EXCEPT ![e[1]][e[2]].index = i]
  IN IF i = 0 THEN [s EXCEPT !.ev[f][d].active = FALSE]
     ELSE [s EXCEPT !.kern = @ \ {<<f, d>>}, !.maxfd = IF @ = f THEN -1 ELSE @,
                    !.list = Without(@, i), !.ev = [moved EXCEPT ![f][d] = NoEvent]]

Highest(s) == LET fs == {s.list[i][1] : i \in DOMAIN s.list}
              IN IF fs = {} THEN -1 ELSE CHOOSE f \in fs : \A g \in fs : g <= f
----------------------------------------------------------------------------
(* poll: one entry of event_list[] per descriptor, shared by its two events *)
PollAdd(s, f, d) ==
  LET e == s.ev[f][Other(d)].index IN
  IF s.ev[f][d].index # 0 THEN [s EXCEPT !.alert = TRUE, !.ev[f][d].active = TRUE]
  ELSE IF e = 0
  THEN [s EXCEPT !.list = Append(@, [fd |-> f, events |-> {d}]),
                 !.ev[f][d].active = TRUE, !.ev[f][d].index = Len(s.list) + 1]
  ELSE [s EXCEPT !.list[e].events = @ \cup {d},
                 !.ev[f][d].active = TRUE, !.ev[f][d].index = e]

PollDel(s, f, d) ==
  LET i == s.ev[f][d].index
      e == s.ev[f][Other(d)].index
      n == Len(s.list)
      g == s.list[n].fd
      moved == IF i = n THEN s.ev
               ELSE [s.ev EXCEPT ![g] = [b \in Dirs |-> IF @[b].index = n
                                                        THEN [@[b] EXCEPT !.index = i]
                                                        ELSE @[b]]]
  IN IF i = 0 THEN [s EXCEPT !.alert = TRUE, !.ev[f][d].active = FALSE]
     ELSE IF e # 0
     THEN [s EXCEPT !.list[e].events = @ \ {d}, !.ev[f][d] = NoEvent]
     ELSE [s EXCEPT !.list = Without(@, i), !.ev = [moved EXCEPT ![f][d] = NoEvent],
                    !.alert = @ \/ (i # n /\ g \notin open)]
----------------------------------------------------------------------------
(* /dev/poll: changes are written when the list is full, before a wait, and
   before a descriptor is closed *)
Written(k, changes) ==
  FoldLeft(LAMBDA acc, x : IF x.what = "remove" THEN {p \in acc : p[1] # x.fd}
                           ELSE acc \cup {<<x.fd, x.what>>}, k, changes)
DevpollFlush(s) == [s EXCEPT !.kern = Written(@, s.list), !.list = <<>>]

DevpollSet(s, f, what, close) ==
  LET a == IF Len(s.list) >= MaxChanges THEN DevpollFlush(s) ELSE s
      b == [a EXCEPT !.list = Append(@, [fd |-> f, what |-> what])]
  IN IF close THEN DevpollFlush(b) ELSE b

DevpollAdd(s, f, d) == DevpollSet([s EXCEPT !.ev[f][d].active = TRUE], f, d, FALSE)

DevpollDel(s, f, d, close) ==
  LET a == [DevpollSet(s, f, "remove", close) EXCEPT !.ev[f][d].active = FALSE]
      o == Other(d)
  IN IF close THEN [a EXCEPT !.ev[f][o].active = FALSE]
     ELSE IF a.ev[f][o].active THEN DevpollSet(a, f, o, FALSE) ELSE a
----------------------------------------------------------------------------
(* kqueue: a change that was not passed to the kernel yet is taken back *)
Changed(k, changes) ==
  FoldLeft(LAMBDA acc, x : IF x.op = "add" THEN acc \cup {<<x.fd, x.d>>}
                           ELSE acc \ {<<x.fd, x.d>>}, k, changes)
KqueueFlush(s) == [s EXCEPT !.kern = Changed(@, s.list), !.list = <<>>]

KqueueSet(s, f, d, op) ==
  LET a == IF Len(s.list) >= MaxChanges THEN KqueueFlush(s) ELSE s
  IN [a EXCEPT !.list = Append(@, [fd |-> f, d |-> d, op |-> op]),
               !.ev[f][d].index = Len(a.list) + 1]

KqueueAdd(s, f, d) == KqueueSet([s EXCEPT !.ev[f][d].active = TRUE], f, d, "add")

KqueueDel(s, f, d, close) ==
  LET a == [s EXCEPT !.ev[f][d].active = FALSE]
      i == s.ev[f][d].index
      mine == i \in DOMAIN s.list /\ s.list[i].fd = f /\ s.list[i].d = d
      e == Last(s.list)
  IN IF mine
     THEN [a EXCEPT !.list = Without(@, i),
                    !.ev = IF i = Len(s.list) THEN @
                           ELSE [@ EXCEPT ![e.fd][e.d].index = i]]
     ELSE IF close THEN a ELSE KqueueSet(a, f, d, "disable")
----------------------------------------------------------------------------
(* event ports: a descriptor is associated for both directions at once, and
   no more when an event was reported; oneshot remembers who wants it *)
Associated(s, f, ds) == [s EXCEPT !.kern = {p \in @ : p[1] # f} \cup {<<f, d>> : d \in ds}]

PortAdd(s, f, d) ==
  LET o == Other(d)
      a == Associated(s, f, IF s.ev[f][o].oneshot THEN Dirs ELSE {d})
  IN [a EXCEPT !.ev[f][d].active = TRUE, !.ev[f][d].oneshot = TRUE]

PortDel(s, f, d, close) ==
  LET o == Other(d)
      a == IF close THEN s ELSE Associated(s, f, IF s.ev[f][o].oneshot THEN {o} ELSE {})
  IN [a EXCEPT !.ev[f][d].active = FALSE, !.ev[f][d].oneshot = FALSE]

(* what port_getn() does to a descriptor that it reports *)
PortReport(s, f) ==
  [s EXCEPT !.kern = {p \in @ : p[1] # f},
            !.ev[f] = [d \in Dirs |-> [@[d] EXCEPT !.active = FALSE]]]
----------------------------------------------------------------------------
AddEvent(s, f, d) ==
  CASE method = "select"    -> SelectAdd(s, f, d)
    [] method = "poll"      -> PollAdd(s, f, d)
    [] method = "devpoll"   -> DevpollAdd(s, f, d)
    [] method = "kqueue"    -> KqueueAdd(s, f, d)
    [] method = "eventport" -> PortAdd(s, f, d)

DelEvent(s, f, d, close) ==
  CASE method = "select"    -> SelectDel(s, f, d)
    [] method = "poll"      -> PollDel(s, f, d)
    [] method = "devpoll"   -> DevpollDel(s, f, d, close)
    [] method = "kqueue"    -> KqueueDel(s, f, d, close)
    [] method = "eventport" -> PortDel(s, f, d, close)

Opened(f) ==
  /\ f \notin open
  /\ open' = open \cup {f}
  /\ UNCHANGED <<method, ev, list, kern, maxfd, alert>>

(* with kqueue an event is not deleted and added again between two waits: only
   the accept mutex disables and enables, once a turn *)
Unchanged(f, d) == method = "kqueue" => \A i \in DOMAIN list : list[i].fd # f \/ list[i].d # d

Add(f, d) ==
  /\ f \in open /\ ~ev[f][d].active /\ Unchanged(f, d)
  /\ Become(AddEvent(Now, f, d))
  /\ UNCHANGED <<method, open>>

Del(f, d) ==
  /\ f \in open /\ ev[f][d].active /\ Unchanged(f, d)
  /\ Become(DelEvent(Now, f, d, FALSE))
  /\ UNCHANGED <<method, open>>

(* ngx_close_connection(): the active events are deleted, the descriptor is
   closed; kqueue and event ports forget it then *)
Close(f) ==
  /\ f \in open
  /\ open' = open \ {f}
  /\ LET a == IF ev[f]["r"].active THEN DelEvent(Now, f, "r", TRUE) ELSE Now
         b == IF a.ev[f]["w"].active THEN DelEvent(a, f, "w", TRUE) ELSE a
         gone == IF method \in {"kqueue", "eventport"}
                 THEN [b EXCEPT !.kern = {p \in @ : p[1] # f}] ELSE b
     IN Become([gone EXCEPT !.ev[f] = [d \in Dirs |-> [@[d] EXCEPT !.oneshot = FALSE]]])
  /\ UNCHANGED method

(* one call of process_events(): changes go to the kernel, which reports rs *)
Watched(s) ==
  IF method = "poll" THEN UNION {{<<s.list[i].fd, d>> : d \in s.list[i].events} : i \in DOMAIN s.list}
  ELSE s.kern

Flushed(s) ==
  CASE method = "select"  -> [s EXCEPT !.maxfd = IF @ = -1 THEN Highest(s) ELSE @]
    [] method = "devpoll" -> DevpollFlush(s)
    [] method = "kqueue"  -> KqueueFlush(s)
    [] OTHER              -> s

Process(rs) ==
  LET s == Flushed(Now) IN
  /\ rs \subseteq Watched(s)
  /\ method = "select" => \A p \in rs : p[1] <= s.maxfd
  /\ method = "eventport" => \A p, q \in rs : p[1] = q[1]
  /\ LET strange == CASE method = "select" -> rs \ ToSet(s.list) # {}
                      [] method \in {"poll", "devpoll"} -> \E p \in rs : p[1] \notin open
                      [] OTHER -> FALSE
         b == [s EXCEPT !.alert = @ \/ strange]
     IN Become(IF method = "eventport" /\ rs # {}
               THEN PortReport(b, (CHOOSE p \in rs : TRUE)[1]) ELSE b)
  /\ UNCHANGED <<method, open>>

Next ==
  \/ \E f \in Fds : Opened(f) \/ Close(f) \/ \E d \in Dirs : Add(f, d) \/ Del(f, d)
  \/ \E rs \in SUBSET (Fds \X Dirs) : Process(rs)

Spec == Init /\ [][Next]_vars
----------------------------------------------------------------------------
(* Properties *)

Active == {p \in Fds \X Dirs : ev[p[1]][p[2]].active}

(* When the changes are passed to it, the kernel watches exactly the active
   events; an event port watches at least those (it also watches the other
   direction of a descriptor that was reported, for its waiter). *)
WatchesActive ==
  LET w == Watched(Flushed(Now)) IN
  IF method # "eventport" THEN w = Active
  ELSE /\ Active \subseteq w
       /\ \A p \in w : ev[p[1]][p[2]].oneshot
       /\ \A p \in w : ev[p[1]][Other(p[2])].oneshot => <<p[1], Other(p[2])>> \in w

(* The index of an event leads to its entry, no other connection's; select()
   is told of the highest descriptor; none of the alerts is logged. *)
IndexesAgree ==
  /\ ~alert
  /\ method = "select" =>
       /\ \A i \in DOMAIN list : ev[list[i][1]][list[i][2]].index = i
       /\ maxfd # -1 => \A p \in kern : p[1] <= maxfd
  /\ method = "poll" =>
       \A f \in Fds, d \in Dirs : LET i == ev[f][d].index IN
         IF i = 0 THEN \A j \in DOMAIN list : list[j].fd = f => d \notin list[j].events
         ELSE i <= Len(list) /\ list[i].fd = f /\ d \in list[i].events
==============================================================================
