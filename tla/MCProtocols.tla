---------------------------- MODULE MCProtocols ----------------------------
(***************************************************************************)
(* What is understood of the text of clients and servers, one part in each *)
(* behaviour: single texts that grow by one character or token (URIs of    *)
(* request lines, status lines, values, lines of mail), a client           *)
(* connection whose requests come in any pieces, the locations of an HTTP  *)
(* server, a mail session up to the login, and the relay after it.  The    *)
(* variables of the other parts are Off.                                   *)
(***************************************************************************)
EXTENDS Integers, Sequences

VARIABLES part,
          t,
          script, told, mem, c, fed, phase,
          locs, refused, srv,
          conf, s, sock, asked,
          net, con, buf, ev, timer, up, rush

Off == "off"

inputVars == <<script, told, mem, c, fed, phase>>
locationVars == <<locs, refused, srv>>
sessionVars == <<conf, s, sock, asked>>
relayVars == <<net, con, buf, ev, timer, up, rush>>
vars == <<part, t, inputVars, locationVars, sessionVars, relayVars>>

----------------------------------------------------------------------------
HP == INSTANCE HttpParse
MP == INSTANCE MailParse

\* a % 2 e . / ? # +; a status line; a A b SP & , ; =; the tokens of the mail
\* protocols; the arguments of an IMAP command.
Arg(form, value) == [form |-> form, value |-> value]
Letters == [uri    |-> {97, 37, 50, 101, 46, 47, 63, 35, 43},
            status |-> {48, 49, 46, 32, 13, 10, 97},
            values |-> {97, 65, 98, 32, 38, 44, 59, 61},
            mail   |-> {"USER", "LOGIN", "w", " ", "CR", "LF", "QUOTE", "BACKSLASH",
                        ":", "-", "{", "}", "+", "1"},
            imap   |-> {Arg("plain", <<"w">>), Arg("plain", <<"w", "QUOTE", "BACKSLASH", "1">>),
                        Arg("quoted", <<>>), Arg("quoted", <<"w", " ", "{", "1", "}">>),
                        Arg("quoted", <<"QUOTE", "BACKSLASH">>), Arg("literal", <<"QUOTE">>),
                        Arg("literal", <<"CR", "LF">>), Arg("nosync", <<"LF", "{">>),
                        Arg("nosync", [i \in 1..12 |-> "BACKSLASH"])}]
Starts  == [uri    |-> {<<47>>},
            status |-> {<<72, 84, 84, 80, 47, 49>>, <<72, 84, 84, 80, 47, 49, 46, 49, 32, 49>>},
            values |-> {<<>>},
            mail   |-> {<<>>, <<"HTTP">>, <<"HTTP", "/">>, <<"USER", " ">>, <<"MAIL">>, <<"w", ":", " ">>,
                        <<"w", " ", "LOGIN", " ">>,
                        <<"w", " ", "LOGIN", " ", "QUOTE">>, <<"w", " ", "LOGIN", " ", "{", "1">>},
            imap   |-> {<<>>, <<Arg("plain", <<"w">>), Arg("quoted", <<"w">>)>>}]
Longest == [uri |-> 5, status |-> 4, values |-> 5, mail |-> 3, imap |-> 2]
Texts == DOMAIN Letters

\* Requests: a path with an extension and arguments, one that climbs and has
\* an escape, one with a host, HTTP/0.9 after an empty line, a line too long,
\* headers too many, no Host; in pipelines.
Get == <<71, 69, 84, 32>>
Version == <<32, 72, 84, 84, 80, 47, 49, 46, 49, 10>>
Request(uri, path, ext, args, hs) ==
  [line |-> Get \o uri \o Version, method |-> HP!GET, uri |-> path, exten |-> ext,
   args |-> args, headers |-> hs, keepalive |-> TRUE, nine |-> FALSE]
HostLine == [line |-> <<72, 111, 115, 116, 58, 104, 10>>, name |-> <<72, 111, 115, 116>>,
             value |-> <<104>>, valid |-> TRUE]
XLine == [line |-> <<120, 58, 32, 121, 32, 122, 32, 13, 10>>, name |-> <<120>>,
          value |-> <<121, 32, 122>>, valid |-> TRUE]
BadLine == [line |-> <<120, 95, 58, 49, 10>>, name |-> <<>>, value |-> <<>>, valid |-> FALSE]
Times(x, n) == [i \in 1..n |-> x]
WithArgs == Request(<<47, 97, 46, 98, 63, 99>>, <<47, 97, 46, 98>>, <<98>>, <<99>>,
                    <<HostLine, XLine>>)
Climbing == Request(<<47, 120, 47, 46, 46, 47, 37, 54, 49, 46, 98>>, <<47, 97, 46, 98>>,
                    <<98>>, <<>>, <<BadLine, HostLine>>)
WithHost == Request(<<104, 58, 47, 47, 104, 47, 97, 98>>, <<47, 97, 98>>, <<>>, <<>>,
                    <<XLine, HostLine, XLine>>)
Nine == [Request(<<>>, <<47, 97>>, <<>>, <<>>, <<>>)
           EXCEPT !.line = <<13, 10>> \o Get \o <<47, 97, 10>>, !.keepalive = FALSE,
                  !.nine = TRUE]
LongLine == Request(<<47>> \o Times(97, 30), <<>>, <<>>, <<>>, <<>>)
ManyHeaders == Request(<<47>>, <<47>>, <<>>, <<>>, <<HostLine>> \o Times(XLine, 9))
NoHost == Request(<<47>>, <<47>>, <<>>, <<>>, <<XLine>>)
Pipelines == {<<WithArgs, LongLine>>, <<Climbing, ManyHeaders>>, <<NoHost>>,
              <<WithArgs, Climbing, Nine>>, <<WithHost, WithArgs, WithArgs>>,
              <<Climbing, WithHost, Nine>>}

\* Locations over / (1), a (2), b (3), B (5) and @ (4) of every kind.
Form(n, m, d) == [name |-> n, mod |-> m, pass |-> d]
LocationForms ==
  { Form(<<1>>, "", TRUE), Form(<<1, 2>>, "", FALSE), Form(<<1, 2>>, "=", FALSE),
    Form(<<1, 2, 1>>, "", TRUE), Form(<<1, 2, 3>>, "^~", TRUE),
    Form(<<1, 2, 1, 3>>, "=", FALSE), Form(<<3>>, "~", FALSE), Form(<<1, 3>>, "~*", FALSE),
    Form(<<1, 3>>, "", FALSE), Form(<<4>>, "", FALSE) }
LocationUris == {<<1>> \o u : u \in UNION {[1..n -> 1..3] : n \in 0..3}} \cup {<<1, 5>>, <<1, 2, 5>>}
LowerCase(x) == IF x = 5 THEN 3 ELSE x

\* Mail servers of the three protocols, with and without TLS, and the lines
\* that lead to a login, or nearly.
MailServer(proto, tls, methods) ==
  [proto |-> proto, tls |-> tls, methods |-> methods, resolver |-> FALSE,
   delay |-> FALSE, onssl |-> FALSE, xclient |-> FALSE, pass |-> FALSE]
MailServers ==
  { MailServer("pop3", "only", {"apop", "cram"}), MailServer("imap", "on", {}),
    MailServer("imap", "only", {"cram"}),
    [MailServer("imap", "off", {}) EXCEPT !.onssl = TRUE],
    [MailServer("smtp", "only", {"none"}) EXCEPT !.resolver = TRUE, !.xclient = TRUE],
    [MailServer("smtp", "off", {"none"}) EXCEPT !.delay = TRUE, !.pass = TRUE] }
Line(w) == w \o <<"LF">>
MailLines(proto, k) ==
  LET tag == <<"A", "B", "C">>[k] IN
  CASE proto = "pop3" ->
         { Line(<<"USER", " ", "w">>), Line(<<"PASS", " ", "w">>),
           Line(<<"APOP", " ", "w", " ", "w">>), Line(<<"AUTH", " ", "LOGIN">>),
           Line(<<"AUTH", " ", "CRAM-MD5">>), Line(<<"m">>), Line(<<"w">>),
           Line(<<"STLS">>) }
    [] proto = "imap" ->
         { Line(<<tag, " ", "LOGIN", " ", "w", " ", "{", "1", "}">>),
           Line(<<tag, " ", "LOGIN", " ", "QUOTE", "BACKSLASH", "w", "QUOTE", " ", "w">>),
           Line(<<tag, " ", "AUTHENTICATE", " ", "LOGIN">>),
           Line(<<tag, " ", "AUTHENTICATE", " ", "CRAM-MD5">>),
           Line(<<"m">>), Line(<<"w">>), Line(<<tag, " ", "STARTTLS">>),
           Line(<<tag, " ", "LOGOUT">>) }
    [] proto = "smtp" ->
         { Line(<<"EHLO", " ", "w">>), Line(<<"MAIL", " ", "w">>),
           Line(<<"RCPT", " ", "w">>), Line(<<"RSET">>), Line(<<"STARTTLS">>),
           Line(<<"AUTH", " ", "PLAIN">>), Line(<<"p">>), Line(<<"QUIT">>) }

HI == INSTANCE HttpInput WITH
        Scripts <- Pipelines, BufSize <- 12, LargeSize <- 40, LargeNum <- 2,
        MergeSlashes <- TRUE
HL == INSTANCE HttpLocations WITH
        Forms <- LocationForms, Uris <- LocationUris, Slash <- 1, At <- 4,
        Lower <- LowerCase, MaxLocations <- 4
MS == INSTANCE MailSession WITH
        Confs <- MailServers, Lines <- MailLines, MaxLines <- 3, MaxUnread <- 2,
        BufSize <- 12
MR == INSTANCE MailRelay WITH Bytes <- 3, Size <- 2, Room <- 1

----------------------------------------------------------------------------
NoInput == /\ script = Off /\ told = Off /\ mem = Off /\ c = Off /\ fed = Off
           /\ phase = Off
NoLocations == locs = Off /\ refused = Off /\ srv = Off
NoSession == conf = Off /\ s = Off /\ sock = Off /\ asked = Off
NoRelay == /\ net = Off /\ con = Off /\ buf = Off /\ ev = Off /\ timer = Off
           /\ up = Off /\ rush = Off

Init ==
  \/ /\ part \in Texts
     /\ t \in {[start |-> Len(x), text |-> x] : x \in Starts[part]}
     /\ NoInput /\ NoLocations /\ NoSession /\ NoRelay
  \/ part = "input" /\ HI!Init /\ t = Off /\ NoLocations /\ NoSession /\ NoRelay
  \/ part = "locations" /\ HL!Init /\ t = Off /\ NoInput /\ NoSession /\ NoRelay
  \/ part = "session" /\ MS!Init /\ t = Off /\ NoInput /\ NoLocations /\ NoRelay
  \/ part = "relay" /\ MR!Init /\ t = Off /\ NoInput /\ NoLocations /\ NoSession

Grow ==
  /\ part \in Texts
  /\ Len(t.text) - t.start < Longest[part]
  /\ \E x \in Letters[part] : t' = [t EXCEPT !.text = Append(@, x)]
  /\ UNCHANGED <<part, inputVars, locationVars, sessionVars, relayVars>>
InputStep ==
  /\ part = "input" /\ HI!Next
  /\ UNCHANGED <<part, t, locationVars, sessionVars, relayVars>>
LocationStep ==
  /\ part = "locations" /\ HL!Next
  /\ UNCHANGED <<part, t, inputVars, sessionVars, relayVars>>
SessionStep ==
  /\ part = "session" /\ MS!Next
  /\ UNCHANGED <<part, t, inputVars, locationVars, relayVars>>
RelayStep ==
  /\ part = "relay" /\ MR!Next
  /\ UNCHANGED <<part, t, inputVars, locationVars, sessionVars>>

Next == Grow \/ InputStep \/ LocationStep \/ SessionStep \/ RelayStep

Spec == Init /\ [][Next]_vars

\* ngx_http_parse_request_line(), _complex_uri() and _status_line(), one
\* character at a time, against a definition of the whole text: escapes, "."
\* and "..", slashes that are merged, arguments and extension; versions and
\* codes.  The same for URIs that a response names, for an argument and for a
\* cookie by name.  A "." or ".." that ends a path is kept by both parsers of
\* URIs; the definition says so.
HttpTextRight ==
  /\ part = "uri" => HP!UriParsesRight(t.text) /\ HP!UnsafeRefused(t.text)
  /\ part = "values" => \A name \in {<<97>>, <<97, 98>>} : HP!ValuesFound(t.text, name)
  /\ part = "status" => HP!StatusParsesRight(t.text)

\* The parsers of POP3, IMAP and SMTP lines and of the answers of the
\* authentication server: a text is understood the same in one piece and in two,
\* and a POP3 or SMTP line, or an IMAP line of plain words, gives its words, a
\* header its name and value.  An IMAP command with quoted strings and literals,
\* on one line or several, gives the tag and the values that were written.
MailTextRight ==
  /\ part = "mail" => MP!MailParsesRight(t.text)
  /\ part = "imap" => MP!ImapReadsBack(t.text)

\* ngx_http_process_request_line(), _headers(), _alloc_large_header_buffer()
\* and the keepalive handling of pipelined input: in whatever pieces requests
\* arrive and buffers are exchanged, every request has the line and headers its
\* client sent, and one that fits into the buffers is not refused.
InputRight == part = "input" => HI!RequestAsSent /\ HI!FitsIsRead

\* ngx_http_init_locations() to ngx_http_core_find_location(): sorting the
\* queue, splitting it and making a tree of it finds the location that the
\* documentation promises for every URI.
LocationsFound == part = "locations" => HL!LocationsFound

\* Mail sessions: a session in any state of its protocol waits for something
\* that will come, takes no password where TLS is required, answers an IMAP
\* command under its tag to a client that waits for the answer, and relays only
\* after the mail server was told what its protocol asks for, in that order.
MailLogin ==
  part = "session" =>
    MS!NeverWaitsForever /\ MS!CredentialsUnderTls /\ MS!TagEchoed /\ MS!ToldInOrder

\* ngx_mail_proxy_handler() after the login: what either side sends reaches the
\* other once and in order before the session closes, through one buffer per
\* direction, and neither side waits with the other one ready.
MailRelayed == part = "relay" => MR!RelayedWhole /\ MR!NothingWaits
=============================================================================
