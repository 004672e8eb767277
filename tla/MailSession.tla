----------------------------- MODULE MailSession -----------------------------
(***************************************************************************)
(* A session of the mail proxy from the accepted connection to the relay:  *)
(* the greeting, the command dialogue (mail/ngx_mail_handler.c and the     *)
(* pop3, imap and smtp handlers), the question to the authentication       *)
(* server (ngx_mail_auth_http_module.c), the log in at the mail server     *)
(* (ngx_mail_proxy_module.c).  Memory never runs out, an event can always  *)
(* be registered, and a TLS connection is shut down at once.               *)
(***************************************************************************)
EXTENDS MailParse

CONSTANTS
  Confs,         \* the servers: [proto, tls, methods, resolver, delay, onssl, xclient, pass]
  Lines(_, _),   \* the lines a client of a protocol may send, tagged with k
  MaxLines,      \* how many of them
  MaxUnread,     \* how many tokens of its lines before may be unread then
  BufSize        \* client_buffer_size, in tokens

VARIABLES
  conf,   \* one of Confs
  s,      \* the session: see Init
  sock,   \* what the client sent and nobody read, and the event of it
  asked   \* the commands sent to the mail server

vars == <<conf, s, sock, asked>>

None == "none"
NoReply == [text |-> None, tag |-> <<>>, left |-> 0]
Reply(t) == [text |-> t, tag |-> <<>>, left |-> 2]

(* a session as ngx_mail_init_connection() makes it *)
Accepted == [live |-> TRUE, rh |-> None, ps |-> NewCommand, mem |-> [i \in 1..BufSize |-> CR],
             last |-> 1, mail |-> "start", out |-> NoReply, blocked |-> FALSE, quit |-> FALSE,
             ssl |-> FALSE, starttls |-> FALSE, late |-> FALSE, rc |-> "OK", login |-> None,
             passwd |-> None, plen |-> 0, method |-> "plain", salt |-> FALSE, helo |-> FALSE,
             esmtp |-> FALSE, from |-> 0, to |-> 0, trans |-> 1, wait |-> FALSE,
             tr |-> FALSE, tw |-> FALSE, peer |-> None, ar |-> FALSE, aw |-> FALSE,
             up |-> None, ur |-> FALSE, due |-> TRUE, early |-> FALSE, said |-> None,
             wact |-> FALSE]

(* ngx_mail_close_connection() ends the session, not the connections to its
   peers *)
Close(x) == [Accepted EXCEPT !.live = FALSE, !.wact = x.wact, !.peer = x.peer, !.up = x.up,
                             !.ar = x.ar, !.aw = x.aw, !.ur = x.ur]

(* the replies that ask an IMAP client for the rest of its command *)
Asked(text) == IF conf.proto = "imap" /\ text \in {"next", "username", "password", "challenge"}
               THEN text ELSE None

(* ngx_mail_send() when the client can take all, a part or nothing, and when
   it is gone.  The write event is registered (wact) when nothing went; the
   rest of a part that went waits for such an event.  said is the IMAP
   reply that went, if it asks for the rest of the command. *)
Send(x) ==
  IF x.out = NoReply THEN {x}
  ELSE LET Went(y) == IF y.quit THEN Close(y) ELSE [y EXCEPT !.tw = FALSE]
       IN { Went([x EXCEPT !.out = NoReply, !.due = FALSE, !.said = Asked(x.out.text)]), [x EXCEPT !.tw = TRUE, !.wact = TRUE], Close(x) }
          \cup (IF x.out.left = 2 THEN {Went([x EXCEPT !.out.left = 1])} ELSE {})

(* ngx_mail_session_internal_server_error() *)
InternalError(x) == Send([x EXCEPT !.out = Reply("internal"), !.quit = TRUE])
----------------------------------------------------------------------------
(* The authentication server. *)

Peer(x) == [x EXCEPT !.peer = "open", !.rh = "block", !.ar = TRUE, !.aw = TRUE]

PeerClosed(x) == [x EXCEPT !.peer = None, !.ar = FALSE, !.aw = FALSE]
AuthFail(x) == InternalError(PeerClosed(x))

(* ngx_mail_auth_http_write_handler(): all, a part or nothing goes, or the
   connection fails *)
AuthWrite(x) == {[x EXCEPT !.aw = FALSE], [x EXCEPT !.aw = TRUE]} \cup AuthFail(x)

(* ngx_mail_auth_http_create_request() drops the password that the digest
   hides (passwd.data), not its length (plen: 0, 1 or the 32 of a digest).
   Where it is asked again, it reads the password at NULL: the worker dies,
   and with it its connections. *)
AuthRequest(x) == IF x.method # "plain" /\ x.salt THEN [x EXCEPT !.passwd = None] ELSE x
ReadsNull(x) == x.passwd = None /\ x.plen # 0
WorkerDies(x) == [Close(x) EXCEPT !.peer = None, !.up = None, !.ar = FALSE, !.aw = FALSE, !.ur = FALSE]

(* ngx_mail_auth_http_init(): no connection, one that is being made, or one
   that is made *)
AuthInit(x) ==
  LET y == AuthRequest(x)
  IN IF ReadsNull(x) THEN {WorkerDies(x)}
     ELSE InternalError(y) \cup {Peer(y)} \cup AuthWrite(Peer(y))

(* a mutant: the credentials go without TLS *)
StarttlsOnlyNever(x) == FALSE
(* ngx_mail_starttls_only() *)
StarttlsOnly(x) == ~x.ssl /\ conf.tls = "only"

(* what the parser keeps from one command to the next *)
NextCommand(ps) == [NewCommand EXCEPT !.start = ps.start, !.end = ps.end, !.quoted = ps.quoted,
                                      !.backslash = ps.backslash]

(* ngx_mail_auth() *)
Auth(x) == AuthInit([x EXCEPT !.ps = [NextCommand(@) EXCEPT !.tag = x.ps.tag], !.last = 1,
                              !.mem = [i \in 1..BufSize |-> IF i <= x.ps.tag THEN @[i] ELSE CR],
                              !.tr = FALSE])
----------------------------------------------------------------------------
(* The commands.  rc is what the code's functions return. *)
Rc(x, rc) == [x EXCEPT !.rc = rc]
Says(x, t) == [x EXCEPT !.out = Reply(t), !.rc = "OK"]
Invalid(x) == Rc(x, "INVALID")
Login(x) == [x EXCEPT !.login = "w"]
Passwd(x, len) == [x EXCEPT !.passwd = "w", !.plen = len]
DigestLen == 32

(* ngx_mail_auth_plain() *)
AuthPlain(x, arg) ==
  IF Base64(arg) /\ "p" \in Range(arg)
  THEN Rc(Passwd(Login(x), 1), "DONE") ELSE Invalid(x)
(* ngx_mail_auth_login_username(), _password() *)
AuthLoginUsername(x, arg) == IF Base64(arg) THEN Rc(Login(x), "OK") ELSE Invalid(x)
AuthLoginPassword(x, arg) == IF Base64(arg) THEN Rc(Passwd(x, 1), "DONE") ELSE Invalid(x)
(* ngx_mail_auth_cram_md5_salt() and ngx_mail_auth_cram_md5(): where no digest
   follows the login, the length of the last password is looked at *)
CramMd5Salt(x) == [Says(x, "challenge") EXCEPT !.salt = TRUE, !.mail = "cram"]
AuthCramMd5(x, arg) ==
  LET y == IF "m" \in Range(arg) THEN Passwd(Login(x), DigestLen) ELSE Login(x)
  IN CASE ~Base64(arg) -> Invalid(x)
       [] Base64(arg) /\ y.plen = DigestLen -> Rc([y EXCEPT !.method = "cram"], "DONE")
       [] OTHER -> Invalid(y)

FirstArg(x) == x.ps.args[1]

(* the common part of AUTH and AUTHENTICATE *)
AuthMechanism(x) ==
  LET how == AuthParse(x.ps.args)
  IN CASE how = "LOGIN" -> [Says(x, "username") EXCEPT !.mail = "login_username"]
       [] how = "LOGIN_USERNAME" ->
            AuthLoginUsername([x EXCEPT !.out = Reply("password"), !.mail = "login_password"],
                              x.ps.args[2])
       [] how = "PLAIN" -> [Says(x, "next") EXCEPT !.mail = "plain"]
       [] how = "PLAIN_ARG" -> AuthPlain(x, x.ps.args[2])
       [] how = "CRAM_MD5" -> IF "cram" \in conf.methods THEN CramMd5Salt(x) ELSE Invalid(x)
       [] how = "INVALID" -> Invalid(x)

(* a line that continues AUTH *)
Continue(x) ==
  CASE x.mail = "login_username" ->
         [AuthLoginUsername(x, FirstArg(x)) EXCEPT !.out = Reply("password"),
                                                   !.mail = "login_password"]
    [] x.mail = "login_password" -> AuthLoginPassword(x, FirstArg(x))
    [] x.mail = "plain" -> AuthPlain(x, FirstArg(x))
    [] x.mail = "cram" -> AuthCramMd5(x, FirstArg(x))

(* ngx_mail_pop3_capa(), ngx_mail_imap_capability() and the end of
   ngx_mail_smtp_helo(): what is offered depends on TLS *)
Offer(x) == IF x.ssl \/ conf.tls = "off" THEN "capability"
            ELSE IF conf.tls = "on" THEN "starttls_capability" ELSE "starttls_only_capability"
Pop3Capa(x, stls) == Says(x, IF stls THEN Offer(x) ELSE "capability")
ImapCapability(x) == Says(x, Offer(x))

(* ngx_mail_pop3_stls() and its like *)
Starttls(x) == IF ~x.ssl /\ conf.tls # "off" THEN Rc([x EXCEPT !.rh = "starttls"], "OK")
               ELSE Invalid(x)

(* ngx_mail_pop3_user(), _pass(), _apop(), _auth() *)
Pop3User(x) == IF StarttlsOnly(x) \/ Len(x.ps.args) # 1 THEN Invalid(x)
               ELSE Rc([Login(x) EXCEPT !.mail = "user"], "OK")
Pop3Pass(x) == IF Len(x.ps.args) # 1 THEN Invalid(x) ELSE Rc(Passwd(x, 1), "DONE")
Pop3Apop(x) ==
  IF StarttlsOnly(x) \/ Len(x.ps.args) # 2 \/ "apop" \notin conf.methods THEN Invalid(x)
  ELSE Rc([Passwd(Login(x), DigestLen) EXCEPT !.method = "apop"], "DONE")
Pop3Auth(x) == CASE StarttlsOnly(x) -> Invalid(x)
                 [] ~StarttlsOnly(x) /\ x.ps.args = <<>> -> [Says(x, "capability") EXCEPT !.ps.st = "start"]
                 [] OTHER -> AuthMechanism(x)

(* the switch of ngx_mail_pop3_auth_state() *)
Pop3Command(x) ==
  LET cmd == x.ps.cmd
  IN CASE x.mail \notin {"start", "user"} -> Continue(x)
       [] x.mail = "start" /\ cmd = "USER" -> Pop3User(x)
       [] x.mail = "user" /\ cmd = "PASS" -> Pop3Pass(x)
       [] x.mail = "start" /\ cmd = "APOP" -> Pop3Apop(x)
       [] x.mail = "start" /\ cmd = "AUTH" -> Pop3Auth(x)
       [] x.mail = "start" /\ cmd = "STLS" -> Starttls(x)
       [] x.mail \in {"start", "user"} /\ cmd = "CAPA" -> Pop3Capa(x, x.mail = "start")
       [] x.mail \in {"start", "user"} /\ cmd = "QUIT" -> Rc([x EXCEPT !.quit = TRUE], "OK")
       [] x.mail \in {"start", "user"} /\ cmd = "NOOP" -> Rc(x, "OK")
       [] OTHER -> Invalid(x)

(* ngx_mail_smtp_helo(), _mail(), _rcpt(), _starttls() *)
SmtpHelo(x) ==
  IF Len(x.ps.args) # 1 THEN Says(x, "argument")
  ELSE [Says(x, IF x.ps.cmd = "EHLO" THEN Offer(x) ELSE "server_name") EXCEPT !.helo = TRUE, !.from = 0, !.to = 0, !.trans = @ + 1,
                                     !.esmtp = @ \/ x.ps.cmd = "EHLO"]
SmtpMail(x) ==
  CASE "none" \notin conf.methods -> Says(x, "authenticate")
    [] "none" \in conf.methods /\ x.from # 0 -> Says(x, "sequence")
    [] OTHER -> [Says(x, "ok") EXCEPT !.from = x.trans]
SmtpRcpt(x) ==
  IF x.from = 0 THEN Says(x, "sequence")
  ELSE Rc([x EXCEPT !.to = x.trans, !.method = "none"], "DONE")
SmtpRset(x) == [Says(x, "ok") EXCEPT !.from = 0, !.to = 0, !.trans = @ + 1]
SmtpStarttls(x) ==
  LET y == Starttls(x)
  IN IF y.rc = "OK" THEN [Says(y, "starttls") EXCEPT !.helo = FALSE, !.from = 0, !.to = 0, !.trans = @ + 1]
     ELSE y
SmtpAuth(x) == CASE StarttlsOnly(x) -> Invalid(x)
                 [] ~StarttlsOnly(x) /\ x.ps.args = <<>> -> [Says(x, "argument") EXCEPT !.ps.st = "start"]
                 [] OTHER -> AuthMechanism(x)

(* the switch of ngx_mail_smtp_auth_state().  trans counts the commands that
   begin a transaction, so that a value of from or to tells its own. *)
SmtpCommand(x) ==
  LET cmd == x.ps.cmd
  IN CASE x.mail # "start" -> Continue(x)
       [] x.mail = "start" /\ cmd \in {"HELO", "EHLO"} -> SmtpHelo(x)
       [] x.mail = "start" /\ cmd = "AUTH" -> SmtpAuth(x)
       [] x.mail = "start" /\ cmd = "QUIT" -> [Says(x, "bye") EXCEPT !.quit = TRUE]
       [] x.mail = "start" /\ cmd = "MAIL" -> SmtpMail(x)
       [] x.mail = "start" /\ cmd = "RCPT" -> SmtpRcpt(x)
       [] x.mail = "start" /\ cmd = "RSET" -> SmtpRset(x)
       [] x.mail = "start" /\ cmd = "NOOP" -> Rc(x, "OK")
       [] x.mail = "start" /\ cmd = "STARTTLS" -> SmtpStarttls(x)
       [] OTHER -> Invalid(x)

(* ngx_mail_imap_login(), _authenticate() *)
ImapLogin(x) ==
  IF StarttlsOnly(x) \/ Len(x.ps.args) # 2 \/ FirstArg(x) = <<>> THEN Invalid(x)
  ELSE Rc(Passwd(Login(x), 1), "DONE")
ImapAuthenticate(x) == IF StarttlsOnly(x) THEN Invalid(x) ELSE AuthMechanism(x)

(* what the switch of ngx_mail_imap_auth_state() makes of escapes first *)
ImapUnescaped(x) ==
  IF x.ps.backslash
  THEN [x EXCEPT !.ps.backslash = FALSE, !.ps.args = [i \in DOMAIN @ |-> Unescaped(@[i])]] ELSE x

(* the switch itself *)
ImapCommand(x) ==
  LET cmd == x.ps.cmd
  IN CASE x.mail # "start" -> Continue(x)
       [] x.mail = "start" /\ cmd = "LOGIN" -> ImapLogin(x)
       [] x.mail = "start" /\ cmd = "AUTHENTICATE" -> ImapAuthenticate(x)
       [] x.mail = "start" /\ cmd = "LOGOUT" -> Rc([x EXCEPT !.quit = TRUE], "OK")
       [] x.mail = "start" /\ cmd = "STARTTLS" -> Starttls(x)
       [] x.mail = "start" /\ cmd = "CAPABILITY" -> ImapCapability(x)
       [] x.mail = "start" /\ cmd = "NOOP" -> Rc(x, "OK")

(* the replies that have no tag: those that ask for more *)
Untagged(z, x) ==
  \/ x.rc = "NEXT"
  \/ z.rc = "OK" /\ z.mail = "start" /\ z.ps.cmd = "AUTHENTICATE" /\ x.rc = "OK"
  \/ z.rc = "OK" /\ z.mail = "login_username"

(* the buffer is free for the next line: after the tag, which is kept there
   until the command is done.  What is behind it is not read any more. *)
Rewind(x, tagged) ==
  LET at == IF tagged /\ x.ps.st # "start" THEN x.ps.tag + 1 ELSE 1
  IN [x EXCEPT !.last = at, !.rc = "OK",
               !.mem = [i \in 1..BufSize |-> IF i < at THEN @[i] ELSE CR],
               !.ps = IF x.ps.st = "start" THEN NextCommand(@)
                      ELSE [@ EXCEPT !.pos = at, !.args = <<>>, !.start = at, !.tag = at - 1]]

(* the three auth_state functions once a line was read: "ok" is the answer
   until the command, if there is one, says otherwise *)
Command(z) ==
  CASE z.rc = "NEXT" -> [z EXCEPT !.out = Reply("next")]
    [] z.rc \notin {"OK", "NEXT"} -> z
    [] z.rc = "OK" /\ conf.proto = "pop3" -> Pop3Command(z)
    [] z.rc = "OK" /\ conf.proto = "imap" -> ImapCommand(ImapUnescaped(z))
    [] z.rc = "OK" /\ conf.proto = "smtp" -> SmtpCommand(z)

(* and their end: x is what became of z *)
Answer(z, x) ==
  LET imap == conf.proto = "imap"
      y == IF x.rc = "INVALID"
           THEN [x EXCEPT !.mail = "start", !.ps.st = "start", !.out = Reply("invalid")] ELSE x
      tag == IF imap /\ ~Untagged(z, x) THEN SubSeq(x.mem, 1, x.ps.tag) ELSE <<>>
      told == [y EXCEPT !.out.tag = tag]
  IN IF x.rc = "DONE" THEN Auth(x)
     ELSE Send(IF x.rc = "NEXT" THEN told ELSE Rewind(told, imap))

(* ngx_mail_read_command(): nothing there, or a piece that is parsed.  The
   answers are pairs of a session and what stays in the socket. *)
Stays(x) == {[x |-> x, rest |-> sock.text]}
Received(x, n) ==
  [x EXCEPT !.mem = [i \in 1..BufSize |->
                       IF i \in x.last..(x.last + n - 1) THEN sock.text[i - x.last + 1] ELSE @[i]],
            !.last = @ + n]
Parsed(got, ps) ==
  LET full == ps.rc = "AGAIN" /\ got.last > BufSize
  IN [got EXCEPT !.ps = ps, !.quit = @ \/ full, !.rc = IF full THEN "INVALID" ELSE ps.rc]

ReadCommand(x) ==
  LET room == BufSize + 1 - x.last
      n == IF Len(sock.text) < room THEN Len(sock.text) ELSE room
      Rest(w) == [x |-> w, rest |-> SubSeq(sock.text, n + 1, Len(sock.text))]
      Done(z) == IF z.rc = "AGAIN" THEN {z}
                 ELSE UNION {Answer(z, y) : y \in {Command([z EXCEPT !.out = Reply("ok")])}}
  IN IF sock.text = <<>> THEN Stays(IF sock.eof THEN Close(x) ELSE x)
     ELSE {Rest(w) : w \in UNION {Done(z) : z \in {Parsed(got, Parse(conf.proto, got.ps, got.mem, got.last)) :
                                                got \in {Received(x, n)}}}}

(* ngx_mail_pop3_auth_state() and its like *)
AuthState(x) ==
  CASE x.late -> Stays(Close(x))
    [] ~x.late /\ x.out # NoReply -> Stays([x EXCEPT !.blocked = TRUE])
    [] OTHER -> ReadCommand([x EXCEPT !.blocked = FALSE])

(* ngx_mail_pop3_init_protocol() and its like *)
InitProtocol(x) == IF x.late THEN Stays(Close(x))
                   ELSE AuthState([x EXCEPT !.mail = "start", !.rh = "auth"])
----------------------------------------------------------------------------
(* The beginning. *)

(* the end of ngx_mail_pop3_init_session() and its like *)
Greet(x) == Send([x EXCEPT !.tr = TRUE, !.rh = "init", !.out = Reply("greeting")])
Pop3InitSession(x) ==
  Greet([x EXCEPT !.salt = "apop" \in conf.methods \/ "cram" \in conf.methods])
ImapInitSession(x) == Greet(x)
(* ngx_mail_smtp_greeting(), ngx_mail_smtp_init_session() *)
SmtpGreeting(x) == IF conf.delay THEN {[x EXCEPT !.tr = TRUE, !.rh = "pipelining"]} ELSE Greet(x)

(* only an IPv4 address is resolved *)
SmtpInitSession(x) ==
  SmtpGreeting(x) \cup (IF conf.resolver THEN {[x EXCEPT !.rh = "resolving"], Close(x)} ELSE {})

(* ngx_mail_init_session() *)
InitSession(x) ==
  CASE conf.proto = "pop3" -> Pop3InitSession(x)
    [] conf.proto = "imap" -> ImapInitSession(x)
    [] conf.proto = "smtp" -> SmtpInitSession(x)

(* ngx_mail_ssl_handshake_handler() *)
Handshaked(x) == IF x.starttls THEN InitProtocol([x EXCEPT !.rh = "init"])
                 ELSE UNION {Stays(y) : y \in InitSession(x)}

(* ngx_mail_ssl_init_connection(): the handshake fails, goes on or is done *)
SslInit(z) ==
  LET x == [z EXCEPT !.ssl = TRUE]
  IN Stays(Close(x)) \cup Stays([x EXCEPT !.tr = TRUE, !.rh = "ssl"]) \cup Handshaked(x)

(* ngx_mail_starttls_handler() *)
StarttlsHandler(x) == SslInit([x EXCEPT !.starttls = TRUE])

Init ==
  /\ conf \in Confs
  /\ s = [Accepted EXCEPT !.rh = "accept"]
  /\ sock = [text |-> <<>>, todo |-> <<>>, event |-> FALSE, eof |-> FALSE, sent |-> 0,
              tag |-> <<>>]
  /\ asked = <<>>

InitConnection ==
  /\ s.rh = "accept"
  /\ \E y \in IF conf.onssl THEN {p.x : p \in SslInit(Accepted)} ELSE InitSession(Accepted) : s' = y
  /\ UNCHANGED <<conf, sock, asked>>

(* ngx_mail_smtp_resolve_addr_handler(), _resolve_name(), _resolve_name_handler():
   the two questions fail or are answered, and the greeting follows *)
Resolved ==
  /\ s.live /\ s.rh = "resolving"
  /\ \E y \in SmtpGreeting(s) \cup {Close(s)} : s' = y
  /\ UNCHANGED <<conf, sock, asked>>
----------------------------------------------------------------------------
(* ngx_mail_smtp_invalid_pipelining() before the greeting *)
Pipelining(x) ==
  IF x.late THEN UNION {Stays(y) : y \in Greet([x EXCEPT !.late = FALSE])}
  ELSE CASE sock.text = <<>> -> IF sock.eof THEN Stays(Close(x)) ELSE Stays(x)
         [] sock.text # <<>> ->
              {[x |-> y, rest |-> SubSeq(sock.text, BufSize + 1, Len(sock.text))] :
                 y \in Send([x EXCEPT !.out = Reply("pipelining")])}

(* ngx_mail_auth_sleep_handler(): whether the connection is ready (rev->ready)
   when only its end is left depends on what was read with it *)
Wake(x) ==
  LET y == [x EXCEPT !.late = FALSE]
      ready == IF sock.event \/ sock.text # <<>> THEN {TRUE}
               ELSE IF sock.eof THEN BOOLEAN ELSE {FALSE}
      back == [y EXCEPT !.rh = "auth", !.mail = "start", !.method = "plain"]
  IN CASE ~x.late -> Stays(x)
       [] x.late /\ x.wait -> UNION {Stays(w) : w \in AuthInit([y EXCEPT !.wait = FALSE])}
       [] OTHER -> UNION {IF ~w.live THEN Stays(w)
                          ELSE UNION {IF r THEN AuthState([w EXCEPT !.tr = TRUE])
                                      ELSE Stays([w EXCEPT !.tr = TRUE]) : r \in ready} :
                          w \in Send(back)}

(* the read handler of the client's connection *)
ReadHandler(x) ==
  CASE x.rh = "init" -> InitProtocol(x)
    [] x.rh = "auth" -> AuthState(x)
    [] x.rh = "starttls" -> StarttlsHandler(x)
    [] x.rh = "ssl" -> IF x.late THEN Stays(Close(x))
                       ELSE Stays(Close(x)) \cup Stays(x) \cup Handshaked(x)
    [] x.rh = "pipelining" -> Pipelining(x)
    [] x.rh = "sleep" -> Wake(x)
    [] x.rh \in {"block", "pblock"} -> Stays(x)

Serving == s.live /\ s.rh \notin {"accept", "resolving", "relay"}

Became(outcomes, clear) ==
  \E o \in outcomes : s' = o.x /\ sock' = [sock EXCEPT !.text = o.rest, !.event = @ /\ ~clear]

(* the socket is readable; the client's timer fires *)
ClientRead ==
  /\ Serving /\ sock.event
  /\ Became(ReadHandler(s), TRUE)
  /\ UNCHANGED <<conf, asked>>
ClientReadTimeout ==
  /\ Serving /\ s.tr
  /\ Became(ReadHandler([s EXCEPT !.tr = FALSE, !.late = TRUE]), FALSE)
  /\ UNCHANGED <<conf, asked>>

(* the write handler: ngx_mail_send() but for a handshake, whose event may come at any time once
   it is registered: a reader that waited for it goes on.  The reply "ok" is
   set before a command is looked at and stays during the authentication. *)
ClientWrite ==
  /\ Serving /\ s.wact /\ s.out # NoReply
  /\ IF s.rh = "ssl" THEN Became(ReadHandler(s), FALSE)
     ELSE \E y \in Send(s) :
            IF y.live /\ y.blocked /\ ~y.tw THEN Became(ReadHandler(y), FALSE)
            ELSE s' = y /\ UNCHANGED sock
  /\ UNCHANGED <<conf, asked>>
ClientWriteTimeout ==
  /\ Serving /\ s.tw
  /\ s' = Close(s)
  /\ UNCHANGED <<conf, sock, asked>>

(* the client: it sends a line, whole or in two parts, and closes.  It may be
   early, that is, not wait for the answer to its last line, or have the answer
   before the end of that line was read.  tag is that of
   the command it sends; a line it was asked for belongs to the command
   before. *)
Tagged(l) == conf.proto = "imap" /\ Len(l) > 1 /\ l[2] = SP
ClientSends ==
  /\ sock.sent < MaxLines /\ ~sock.eof /\ s.live /\ s.rh # "accept"
  /\ sock.todo = <<>> /\ Len(sock.text) <= MaxUnread
  /\ \E l \in Lines(conf.proto, sock.sent + 1) : \E half \in {FALSE, Len(l) > 5} :
       LET k == IF half THEN Len(l) \div 2 ELSE Len(l)
       IN sock' = [sock EXCEPT !.text = @ \o SubSeq(l, 1, k), !.todo = SubSeq(l, k + 1, Len(l)),
                               !.event = TRUE, !.sent = @ + 1,
                               !.tag = CASE s.said # None -> @
                                         [] s.said = None /\ Tagged(l) -> SubSeq(l, 1, 2)
                                         [] OTHER -> <<>>]
  /\ s' = [s EXCEPT !.due = TRUE, !.early = @ \/ s.due \/ s.out # NoReply \/ sock.text # <<>>
                                            \/ s.rh \notin {"init", "auth", "ssl", "starttls"}]
  /\ UNCHANGED <<conf, asked>>
ClientSendsRest ==
  /\ sock.todo # <<>> /\ ~sock.eof /\ s.live
  /\ sock' = [sock EXCEPT !.text = @ \o sock.todo, !.todo = <<>>, !.event = TRUE]
  /\ UNCHANGED <<conf, s, asked>>
ClientCloses ==
  /\ ~sock.eof /\ s.live /\ s.rh # "accept"
  /\ sock' = [sock EXCEPT !.eof = TRUE, !.event = TRUE]
  /\ UNCHANGED <<conf, s, asked>>
----------------------------------------------------------------------------
(* ngx_mail_proxy_init() *)
Upstream(x) == [x EXCEPT !.up = "open", !.ur = TRUE, !.rh = "pblock", !.out = NoReply,
                         !.mail = "start"]
UpClosed(x) == [x EXCEPT !.up = None, !.ur = FALSE]
ProxyInit(x) == InternalError(x) \cup {Upstream(x)}

(* ngx_mail_auth_http_process_headers() at the end of the headers.  The answer
   has the status WAIT or not, an error with or without a text or none, a time
   to sleep or not, a server (which is not looked at after an error or WAIT),
   and a login and a password instead of the client's, or not. *)
Answers ==
  { a \in [wait : BOOLEAN, error : {"error", "", None}, sleep : BOOLEAN,
           server : {"good", "bad", None}, given : BOOLEAN] :
      a.wait \/ a.error = "error" => a.server = None }

AuthDone(x, a) ==
  LET y == [PeerClosed(x) EXCEPT !.login = IF a.given THEN "given" ELSE @,
                                 !.passwd = IF a.given THEN "given" ELSE @,
                                 !.plen = IF a.given THEN 1 ELSE @,
                                 !.wait = @ \/ a.wait]
      denied == a.error = "error" \/ (a.error = "" /\ conf.proto # "smtp")
      tag == IF conf.proto = "imap" THEN SubSeq(x.mem, 1, x.ps.tag) ELSE <<>>
      no == [y EXCEPT !.out = [Reply("denied") EXCEPT !.tag = tag]]
  IN CASE denied /\ ~a.sleep -> Send([no EXCEPT !.quit = TRUE])
       [] denied /\ a.sleep -> {[no EXCEPT !.tr = TRUE, !.rh = "sleep"]}
       [] ~denied /\ y.wait /\ ~a.sleep -> AuthInit(y)
       [] ~denied /\ y.wait /\ a.sleep -> {[y EXCEPT !.tr = TRUE, !.rh = "sleep"]}
       [] OTHER -> IF \/ a.server # "good"
                      \/ y.passwd = None /\ conf.proto # "smtp"
                   THEN InternalError(y) ELSE ProxyInit(y)

(* ngx_mail_auth_http_read_handler(), ngx_mail_auth_http_ignore_status_line(),
   ngx_mail_auth_http_parse_header_line(): the answer is not complete, or it
   is wrong or cut off, or it is there *)
AuthRead ==
  /\ s.live /\ s.peer = "open"
  /\ \E y \in AuthFail(s) \cup UNION {AuthDone(s, a) : a \in Answers} : s' = y
  /\ UNCHANGED <<conf, sock, asked>>
AuthWrites ==
  /\ s.live /\ s.peer = "open" /\ s.aw
  /\ \E y \in AuthWrite(s) : s' = y
  /\ UNCHANGED <<conf, sock, asked>>
AuthTimeout ==
  /\ s.live /\ (s.ar \/ s.aw)
  /\ \E y \in AuthFail(s) : s' = y
  /\ UNCHANGED <<conf, sock, asked>>
----------------------------------------------------------------------------
(* ngx_mail_proxy_pop3_handler(), _imap_handler(), _smtp_handler(): the line
   that is sent in a state and the state after it; "" is the end *)
NoAuth(x) == x.method = "none"
Pop3Dialogue(x) ==
  CASE x.mail = "start" -> <<"USER", "user">>
    [] x.mail = "user" -> <<"PASS", "passwd">>
    [] x.mail = "passwd" -> <<"", "">>
ImapDialogue(x) ==
  CASE x.mail = "start" -> <<"LOGIN", "login">>
    [] x.mail = "login" -> <<"login", "user">>
    [] x.mail = "user" -> <<"passwd", "passwd">>
    [] x.mail = "passwd" -> <<"", "">>

SmtpDialogue(x) ==
  LET hello == IF x.esmtp THEN "EHLO" ELSE "HELO"
  IN CASE x.mail = "start" ->
            <<IF conf.xclient THEN "EHLO" ELSE hello,
              IF conf.xclient THEN "helo_xclient" ELSE IF NoAuth(x) THEN "helo_from" ELSE "helo">>
       [] x.mail = "helo_xclient" ->
            <<"XCLIENT", IF x.helo THEN "xclient_helo"
                         ELSE IF NoAuth(x) THEN "xclient_from" ELSE "xclient">>
       [] x.mail = "xclient_helo" -> <<hello, IF NoAuth(x) THEN "helo_from" ELSE "helo">>
       [] x.mail \in {"helo_from", "xclient_from"} -> <<"MAIL", "from">>
       [] x.mail = "from" -> <<"RCPT", "to">>
       [] x.mail \in {"helo", "xclient", "to"} -> <<"", "">>
Dialogue(x) == CASE conf.proto = "pop3" -> Pop3Dialogue(x)
                 [] conf.proto = "imap" -> ImapDialogue(x)
                 [] conf.proto = "smtp" -> SmtpDialogue(x)

(* the log in is over: the relay begins *)
LoggedIn(x) == [x EXCEPT !.rh = "relay", !.tr = TRUE, !.ur = FALSE]

(* ngx_mail_proxy_upstream_error(), ngx_mail_proxy_internal_server_error() *)
UpstreamError(x) == IF x.out = NoReply THEN InternalError(UpClosed(x))
                    ELSE Send([UpClosed(x) EXCEPT !.quit = TRUE])
ProxyInternalError(x) == InternalError(UpClosed(x))

(* the mail server answers what ngx_mail_proxy_read_response() accepts in this
   state; the last of a log in without authentication passes anyhow *)
UpstreamAccepts ==
  /\ s.live /\ s.up = "open" /\ s.rh = "pblock"
  /\ LET d == Dialogue(s)
     IN IF d[2] = "" THEN s' = LoggedIn(s) /\ UNCHANGED asked
        ELSE \/ s' = [s EXCEPT !.mail = d[2]] /\ asked' = Append(asked, d[1])
             \/ s' \in ProxyInternalError(s) /\ UNCHANGED asked       \* a short send
  /\ UNCHANGED <<conf, sock>>

(* it refuses, sends too long a line or closes *)
UpstreamRefuses ==
  /\ s.live /\ s.up = "open" /\ s.rh = "pblock"
  /\ \/ s' \in UpstreamError(s)
     \/ /\ conf.pass /\ ~(conf.proto = "smtp" /\ s.mail = "to")
        /\ s' \in UpstreamError([s EXCEPT !.out = Reply("refused")])
  /\ UNCHANGED <<conf, sock, asked>>
UpstreamTimeout ==
  /\ s.live /\ s.ur
  /\ s' \in ProxyInternalError(s)
  /\ UNCHANGED <<conf, sock, asked>>

(* ngx_mail_proxy_close_session() at the end of the relay *)
RelayEnds ==
  /\ s.live /\ s.rh = "relay"
  /\ s' = Close(UpClosed(s))
  /\ UNCHANGED <<conf, sock, asked>>

Next ==
  \/ InitConnection \/ Resolved \/ ClientRead \/ ClientReadTimeout \/ ClientWrite
  \/ ClientWriteTimeout \/ ClientSends \/ ClientSendsRest \/ ClientCloses \/ AuthRead \/ AuthWrites
  \/ AuthTimeout \/ UpstreamAccepts \/ UpstreamRefuses \/ UpstreamTimeout \/ RelayEnds

Spec == Init /\ [][Next]_vars
----------------------------------------------------------------------------
(* A session that waits for somebody has a timer that ends the wait, and a
   session that is over, or that talks with its client, has no connection to
   the authentication or the mail server left, unless the client's write event
   came during the authentication.  A resolver's question ends by the
   resolver's timer. *)
NeverWaitsForever ==
  /\ s.live /\ s.rh \notin {"accept", "resolving"} => s.tr \/ s.tw \/ s.ar \/ s.ur
  /\ ~s.live /\ ~s.wact => s.peer = None /\ s.up = None
  /\ s.rh \in {"init", "auth", "starttls", "ssl", "sleep"} => s.peer = None /\ s.up = None

(* With "starttls only" a name or a password is never taken from a client
   whose connection is not under TLS, whatever commands come before it. *)
CredentialsUnderTls ==
  conf.tls = "only" /\ ~s.ssl => s.login # "w" /\ s.passwd # "w"

(* The answer to an IMAP command, whether at once, after the lines of a
   literal or of AUTHENTICATE, or when the log in failed, has the tag of that
   very command, if the client waits for its answers; a reply that asks for
   more has none.  (The rest of a line that was refused before its end is
   taken for another line, with an answer of its own.)  Three replies are otherwise: a user name that does not
   decode is refused without the tag, the line that no tag begins is answered
   with what stands in the buffer where the tag of a log in that failed was,
   and the "ok" that a write event may send during the authentication has no
   tag yet. *)
TagEchoed ==
  conf.proto = "imap" /\ s.live /\ s.due /\ ~s.early =>
    CASE s.out.text \in {None, "greeting", "internal", "refused"} -> TRUE
      [] s.out.text = "ok" /\ s.rh \in {"block", "pblock", "sleep"} -> TRUE
      [] s.out.text = "invalid" /\ sock.tag = <<>> -> TRUE
      [] s.out.text = "invalid" /\ sock.tag # <<>> /\ s.said = "username" -> s.out.tag \in {<<>>, sock.tag}
      [] Asked(s.out.text) # None -> s.out.tag = <<>>
      [] OTHER -> s.out.tag = sock.tag

(* A session is relayed only after the mail server was told who the client is
   and, without authentication, the sender and the recipient of one and the
   same mail transaction. *)
ToldInOrder ==
  s.rh = "relay" /\ s.live =>
    CASE conf.proto = "pop3" -> asked = <<"USER", "PASS">>
      [] conf.proto = "imap" -> asked = <<"LOGIN", "login", "passwd">>
      [] conf.proto = "smtp" ->
           LET hello == IF s.esmtp THEN "EHLO" ELSE "HELO"
           IN /\ asked = (IF conf.xclient
                          THEN <<"EHLO", "XCLIENT">> \o (IF s.helo THEN <<hello>> ELSE <<>>)
                          ELSE <<hello>>)
                         \o (IF s.method = "none" THEN <<"MAIL", "RCPT">> ELSE <<>>)
              /\ s.method = "none" => s.from # 0 /\ s.from = s.to
==============================================================================
