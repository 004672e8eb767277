--------------------------- MODULE MCHttpRequest ---------------------------
(* Instances of HttpRequest for TLC.                                       *)
EXTENDS HttpRequest

Body   == [reqs |-> 1, doc |-> 1,
           allow |-> {"redirect", "refuse", "delay", "body", "expect"}]
Action == [reqs |-> 1, doc |-> 1,
           allow |-> {"redirect", "refuse", "delay", "aio", "post_action"}]
Two    == [reqs |-> 2, doc |-> 2, allow |-> {"refuse", "redirect"}]
Upload == [reqs |-> 2, doc |-> 2, allow |-> {"refuse", "body"}]
Disk   == [reqs |-> 2, doc |-> 2, allow |-> {"aio"}]
Three  == [reqs |-> 3, doc |-> 2, allow |-> {}]
Early  == [reqs |-> 1, doc |-> 1, allow |-> {"redirect", "refuse", "early"}]
MCConfs == {Body, Action, Two, Upload, Disk, Three, Early}
=============================================================================
