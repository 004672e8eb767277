------------------------------ MODULE MailParse ------------------------------
(***************************************************************************)
(* The command parsers of the mail proxy (mail/ngx_mail_parse.c).  A text  *)
(* is a sequence of tokens: a run of letters is one token, every other     *)
(* byte is its own.  The parsers keep their state in the session, because  *)
(* a command may arrive in several pieces.                                 *)
(***************************************************************************)
EXTENDS Integers, Sequences, SequencesExt

CR == "CR"
LF == "LF"
SP == " "
Breaks == {SP, CR, LF}
Marks == Breaks \cup {"QUOTE", "BACKSLASH", "{", "}", "+", "!", "1", "2", ":", "-", "/"}
Letters(t) == t \notin Marks
Digit(t) == IF t = "1" THEN 1 ELSE 2

Pop3Commands == {"USER", "PASS", "APOP", "QUIT", "CAPA", "AUTH", "NOOP", "STLS"}
SmtpCommands == {"HELO", "EHLO", "QUIT", "AUTH", "NOOP", "MAIL", "RSET", "RCPT",
                 "VRFY", "EXPN", "HELP", "STARTTLS"}
ImapCommands == {"NOOP", "LOGIN", "LOGOUT", "STARTTLS", "CAPABILITY", "AUTHENTICATE"}

(* what a session keeps of the command it parses: the state, the arguments,
   arg_start and arg_end (0 is NULL), the place in the buffer *)
NewCommand == [st |-> "start", cmd |-> "none", args |-> <<>>, start |-> 0, end |-> 0,
               cmdstart |-> 1, quoted |-> FALSE, backslash |-> FALSE, literal |-> 0,
               nosync |-> FALSE, tag |-> 0, pos |-> 1, rc |-> "AGAIN"]

Pushed(ps, mem, p) == [ps EXCEPT !.args = Append(@, SubSeq(mem, ps.start, p - 1)), !.start = 0]

(* the labels done and invalid; an argument that was begun and not ended goes
   up to arg_end *)
Finish(ps, mem, p) ==
  LET q == IF ps.start = 0 THEN ps ELSE Pushed(ps, mem, ps.end)
  IN [q EXCEPT !.pos = p + 1, !.rc = "OK",
               !.st = IF ps.cmd \in {"AUTH", "AUTHENTICATE"} THEN "argument" ELSE "start"]
Refuse(ps) == [ps EXCEPT !.st = "start", !.start = 0, !.rc = "INVALID"]

(* after a command name or an argument *)
Then(ps, mem, p) ==
  CASE mem[p] = CR -> [ps EXCEPT !.st = "almost"]
    [] mem[p] = LF -> Finish(ps, mem, p)
    [] OTHER       -> [ps EXCEPT !.st = "spaces"]

(* one byte of ngx_mail_pop3_parse_command() or ngx_mail_smtp_parse_command():
   the names they know, the number of arguments, the commands whose argument
   may have spaces *)
Step(ps, mem, p, names, most, spaced) ==
  LET ch == mem[p]
      word == SubSeq(mem, 1, p - 1)
  IN
  CASE ps.st = "start" /\ ch \in Breaks ->
         IF \E n \in names : word = <<n>> THEN Then([ps EXCEPT !.cmd = word[1]], mem, p)
         ELSE Refuse(ps)
    [] ps.st = "start" /\ ch \notin Breaks -> IF Letters(ch) THEN ps ELSE Refuse(ps)
    [] ps.st = "spaces" /\ ch = SP -> ps
    [] ps.st = "spaces" /\ ch \in {CR, LF} -> Then([ps EXCEPT !.end = p], mem, p)
    [] ps.st = "spaces" /\ ch \notin Breaks ->
         IF Len(ps.args) <= most THEN [ps EXCEPT !.st = "argument", !.start = p] ELSE Refuse(ps)
    [] ps.st = "argument" /\ ch \in Breaks /\ ~(ch = SP /\ ps.cmd \in spaced) ->
         Then(Pushed(ps, mem, p), mem, p)
    [] ps.st = "argument" /\ (ch \notin Breaks \/ (ch = SP /\ ps.cmd \in spaced)) -> ps
    [] ps.st = "almost" -> IF ch = LF THEN Finish(ps, mem, p) ELSE Refuse(ps)

Positions(ps, last) == [i \in 1..(last - ps.pos) |-> ps.pos + i - 1]

(* the loop over what was read, mem[pos..last-1] *)
Scan(one(_, _), ps, last) ==
  LET q == FoldLeft(LAMBDA acc, p : IF acc.rc = "AGAIN" THEN one(acc, p) ELSE acc,
                    [ps EXCEPT !.rc = "AGAIN"], Positions(ps, last))
  IN IF q.rc = "AGAIN" THEN [q EXCEPT !.pos = last] ELSE q

Pop3Parse(ps, mem, last) ==
  Scan(LAMBDA q, p : Step(q, mem, p, Pop3Commands, 2, {"USER", "PASS"}), ps, last)
SmtpParse(ps, mem, last) ==
  Scan(LAMBDA q, p : Step(q, mem, p, SmtpCommands, 10, {}), ps, last)

(* one byte of ngx_mail_imap_parse_command(): the tag and the command *)
ImapHead(ps, mem, p) ==
  LET ch == mem[p]
      word == SubSeq(mem, ps.cmdstart, p - 1)
      bad == [ps EXCEPT !.st = "start", !.quoted = FALSE, !.nosync = FALSE,
                        !.literal = 0, !.rc = "INVALID"]
  IN
  CASE ch \in {CR, LF} /\ ps.st \in {"start", "before"} ->
         [ps EXCEPT !.st = "start", !.rc = "INVALID"]
    [] ps.st = "start" /\ ch = SP -> [ps EXCEPT !.tag = p, !.st = "before"]
    [] ps.st = "start" /\ ch \notin Breaks -> ps
    [] ps.st = "before" /\ ch = SP -> ps
    [] ps.st = "before" /\ ch \notin Breaks -> [ps EXCEPT !.cmdstart = p, !.st = "command"]
    [] ps.st = "command" /\ ch \in Breaks ->
         IF \E n \in ImapCommands : word = <<n>> THEN Then([ps EXCEPT !.cmd = word[1]], mem, p)
         ELSE bad
    [] ps.st = "command" /\ ch \notin Breaks -> IF Letters(ch) THEN ps ELSE bad

(* its arguments: plain, quoted and literal ones *)
ImapArgument(ps, mem, p) ==
  LET ch == mem[p]
      room == Len(ps.args) <= 2
      bad == [ps EXCEPT !.st = "start", !.quoted = FALSE, !.nosync = FALSE,
                        !.literal = 0, !.rc = "INVALID"]
      Done(q) == IF q.start = 0 THEN Finish(q, mem, p)
                 ELSE [Finish(q, mem, p) EXCEPT !.quoted = FALSE, !.nosync = FALSE, !.literal = 0]
      Next(q) == IF ch = LF THEN Done(q) ELSE Then(q, mem, p)
      left == ps.literal - 1
  IN
  CASE ps.st = "spaces" ->
         CASE ch = SP -> ps
           [] ch \in {CR, LF} -> Next([ps EXCEPT !.end = p])
           [] ch \notin Breaks /\ ~room -> bad
           [] ch = "QUOTE" /\ room -> [ps EXCEPT !.quoted = TRUE, !.start = p + 1, !.st = "argument"]
           [] ch = "{" /\ room -> [ps EXCEPT !.st = "literal"]
           [] OTHER -> [ps EXCEPT !.start = p, !.st = "argument"]
    [] ps.st = "argument" ->
         CASE ch = "QUOTE" /\ ps.quoted ->
                [Pushed(ps, mem, p) EXCEPT !.quoted = FALSE, !.st = "spaces"]
           [] ch \in {CR, LF} \/ (ch = SP /\ ~ps.quoted) -> Next(Pushed(ps, mem, p))
           [] ch = "BACKSLASH" /\ ps.quoted -> [ps EXCEPT !.backslash = TRUE, !.st = "backslash"]
           [] OTHER -> ps
    [] ps.st = "backslash" -> IF ch \in {CR, LF} THEN bad ELSE [ps EXCEPT !.st = "argument"]
    [] ps.st = "literal" ->
         CASE ch \in {"1", "2"} -> [ps EXCEPT !.literal = @ * 10 + Digit(ch)]
           [] ch = "}" -> [ps EXCEPT !.st = "literal_start"]
           [] ch = "+" -> [ps EXCEPT !.st = "nosync"]
           [] OTHER -> bad
    [] ps.st = "nosync" -> IF ch = "}" THEN [ps EXCEPT !.nosync = TRUE, !.st = "literal_start"] ELSE bad
    [] ps.st = "literal_start" ->
         CASE ch = CR -> ps
           [] ch = LF -> IF ps.nosync
                         THEN [ps EXCEPT !.start = p + 1, !.nosync = FALSE, !.st = "literal_argument"]
                         ELSE [ps EXCEPT !.start = p + 1, !.st = "literal_argument",
                                         !.pos = p + 1, !.rc = "NEXT"]
           [] OTHER -> bad
    [] ps.st = "literal_argument" ->
         IF ps.literal # 0 /\ left # 0 THEN [ps EXCEPT !.literal = left]
         ELSE [Pushed(ps, mem, p + 1) EXCEPT !.literal = 0, !.st = "literal_end"]
    [] ps.st = "literal_end" ->
         CASE ch = "{" -> IF room THEN [ps EXCEPT !.st = "literal"] ELSE bad
           [] ch \in {CR, LF} -> Next(ps)
           [] OTHER -> [ps EXCEPT !.st = "spaces"]
    [] ps.st = "almost" -> IF ch = LF THEN Done(ps) ELSE bad

ImapParse(ps, mem, last) ==
  Scan(LAMBDA q, p : IF q.st \in {"start", "before", "command"} THEN ImapHead(q, mem, p)
                     ELSE ImapArgument(q, mem, p), ps, last)

Parse(proto, ps, mem, last) ==
  CASE proto = "pop3" -> Pop3Parse(ps, mem, last)
    [] proto = "imap" -> ImapParse(ps, mem, last)
    [] proto = "smtp" -> SmtpParse(ps, mem, last)

(* ngx_mail_imap_auth_state(): the backslashes of the arguments go; for one at
   the end of an argument the byte behind the argument comes *)
Unescaped(arg) ==
  LET end == FoldLeft(LAMBDA acc, t : IF acc.esc THEN [out |-> Append(acc.out, t), esc |-> FALSE]
                                      ELSE IF t = "BACKSLASH" THEN [acc EXCEPT !.esc = TRUE]
                                      ELSE [acc EXCEPT !.out = Append(@, t)],
                      [out |-> <<>>, esc |-> FALSE], arg)
  IN IF end.esc THEN Append(end.out, "behind") ELSE end.out

(* base64: w stands for the coding of a word, p of NUL login NUL password,
   m of a login and a CRAM-MD5 digest; an empty text decodes too *)
Base64(arg) == \A i \in DOMAIN arg : arg[i] \in {"w", "p", "m"}

(* ngx_mail_auth_parse(): the mechanism, or INVALID *)
AuthParse(args) ==
  CASE args # <<>> /\ args[1] = <<"LOGIN">> /\ Len(args) = 1 -> "LOGIN"
    [] args # <<>> /\ args[1] = <<"LOGIN">> /\ Len(args) = 2 -> "LOGIN_USERNAME"
    [] args # <<>> /\ args[1] = <<"PLAIN">> /\ Len(args) = 1 -> "PLAIN"
    [] args # <<>> /\ args[1] = <<"PLAIN">> /\ Len(args) = 2 -> "PLAIN_ARG"
    [] args = <<<<"CRAM-MD5">>>> -> "CRAM_MD5"
    [] OTHER -> "INVALID"
----------------------------------------------------------------------------
(* The answer of the authentication server (ngx_mail_auth_http_module.c). *)
NewHeader == [st |-> "start", ns |-> 0, ne |-> 0, vs |-> 0, ve |-> 0, pos |-> 1, rc |-> "AGAIN"]

(* ngx_mail_auth_http_ignore_status_line(): a text that does not begin as one
   is taken for headers *)
StatusStep(h, mem, p) ==
  LET ch == mem[p]
      Done(at) == [h EXCEPT !.pos = at, !.st = "start", !.rc = "OK"]
  IN CASE h.st = "start" -> IF ch = "HTTP" THEN [h EXCEPT !.st = "HTTP"] ELSE Done(1)
       [] h.st = "HTTP" -> IF ch = "/" THEN [h EXCEPT !.st = "skip"] ELSE Done(1)
       [] h.st = "skip" -> CASE ch = CR -> [h EXCEPT !.st = "almost"]
                             [] ch = LF -> Done(p + 1)
                             [] OTHER -> h
       [] h.st = "almost" -> IF ch = LF THEN Done(p + 1) ELSE [h EXCEPT !.rc = "ERROR"]
IgnoreStatusLine(h, mem, last) == Scan(LAMBDA q, p : StatusStep(q, mem, p), h, last)

(* a mutant: the spaces after a value belong to it *)
HeaderStepTrailing(h, mem, p) ==
  LET ch == mem[p]
      End(q, rc) == [q EXCEPT !.pos = p + 1, !.st = "start", !.rc = rc]
  IN CASE h.st = "start" -> [h EXCEPT !.st = "name", !.ns = p]
       [] h.st = "name" -> IF ch = ":" THEN [h EXCEPT !.ne = p, !.vs = p + 1, !.st = "value"] ELSE h
       [] OTHER -> IF ch = LF THEN End([h EXCEPT !.ve = p], "OK") ELSE h

(* one byte of ngx_mail_auth_http_parse_header_line() *)
HeaderStep(h, mem, p) ==
  LET ch == mem[p]
      End(q, rc) == [q EXCEPT !.pos = p + 1, !.st = "start", !.rc = rc]
      Break(q) == IF ch = LF THEN End(q, "OK") ELSE [q EXCEPT !.st = "almost"]
      error == [h EXCEPT !.rc = "ERROR"]
      word == Letters(ch) \/ ch \in {"1", "2"}
  IN
  CASE h.st = "start" ->
         CASE ch = CR -> [h EXCEPT !.ve = p, !.st = "last"]
           [] ch = LF -> End([h EXCEPT !.ve = p], "DONE")
           [] word -> [h EXCEPT !.ns = p, !.st = "name"]
           [] OTHER -> error
    [] h.st = "name" ->
         CASE word \/ ch = "-" -> h
           [] ch = ":" -> [h EXCEPT !.ne = p, !.st = "before"]
           [] ch \in {CR, LF} -> Break([h EXCEPT !.ne = p, !.vs = p, !.ve = p])
           [] OTHER -> error
    [] h.st = "before" ->
         CASE ch = SP -> h
           [] ch \in {CR, LF} -> Break([h EXCEPT !.vs = p, !.ve = p])
           [] OTHER -> [h EXCEPT !.vs = p, !.st = "value"]
    [] h.st = "value" ->
         CASE ch = SP -> [h EXCEPT !.ve = p, !.st = "after"]
           [] ch \in {CR, LF} -> Break([h EXCEPT !.ve = p])
           [] OTHER -> h
    [] h.st = "after" ->
         CASE ch = SP -> h
           [] ch \in {CR, LF} -> Break(h)
           [] OTHER -> [h EXCEPT !.st = "value"]
    [] h.st = "almost" -> IF ch = LF THEN End(h, "OK") ELSE error
    [] h.st = "last" -> IF ch = LF THEN End(h, "DONE") ELSE error
ParseHeaderLine(h, mem, last) == Scan(LAMBDA q, p : HeaderStep(q, mem, p), h, last)

Trimmed(t) == LET S == {i \in DOMAIN t : t[i] # SP}
              IN IF S = {} THEN <<>>
                 ELSE SubSeq(t, CHOOSE i \in S : \A j \in S : i <= j,
                                CHOOSE i \in S : \A j \in S : i >= j)

(* a line, and nothing else: its bytes but the end of line *)
IsLine(t) == t # <<>> /\ Last(t) = LF /\ \A i \in 1..(Len(t) - 1) :
                t[i] # LF /\ (t[i] = CR => i = Len(t) - 1)
Body(t) == IF Len(t) > 1 /\ t[Len(t) - 1] = CR THEN SubSeq(t, 1, Len(t) - 2) ELSE Front(t)

(* a header line gives the name and the value without the spaces around it,
   in one piece or in two *)
HeaderRight(t) ==
  LET all == ParseHeaderLine(NewHeader, t, Len(t) + 1)
      b == Body(t)
      colon == CHOOSE i \in DOMAIN b : b[i] = ":" /\ \A j \in 1..(i - 1) : b[j] # ":"
  IN /\ \A k \in 0..Len(t) :
          LET one == ParseHeaderLine(NewHeader, t, k + 1)
          IN one.rc = "AGAIN" =>
               LET two == ParseHeaderLine(one, t, Len(t) + 1)
               IN two = IF all.rc = "ERROR" THEN [all EXCEPT !.pos = k + 1] ELSE all
     /\ IsLine(t) /\ ":" \in Range(b) /\ all.rc = "OK" =>
          /\ SubSeq(t, all.ns, all.ne - 1) = SubSeq(b, 1, colon - 1)
          /\ SubSeq(t, all.vs, all.ve - 1) = Trimmed(SubSeq(b, colon + 1, Len(b)))

(* the status line is passed over, in one piece or in two; a text that is not
   one is left to the headers *)
StatusRight(t) ==
  LET all == IgnoreStatusLine(NewHeader, t, Len(t) + 1)
      starts == <<"HTTP", "/">>
  IN /\ \A k \in 0..Len(t) :
          LET one == IgnoreStatusLine(NewHeader, t, k + 1)
              two == IgnoreStatusLine(one, t, Len(t) + 1)
          IN one.rc = "AGAIN" => two.rc = all.rc /\ (all.rc # "ERROR" => two.pos = all.pos)
     /\ (IsLine(t) \/ LF \notin Range(t)) /\ all.rc # "ERROR" =>
            all.pos = IF ~IsPrefix(starts, t) /\ ~IsPrefix(t, starts) THEN 1 ELSE Len(t) + 1
----------------------------------------------------------------------------
(* What a line means: the command and the words after it. *)
Words(t) ==
  LET r == FoldLeft(LAMBDA acc, ch :
                      IF ch = SP THEN [ws |-> IF acc.w = <<>> THEN acc.ws ELSE Append(acc.ws, acc.w),
                                       w |-> <<>>]
                      ELSE [acc EXCEPT !.w = Append(@, ch)], [ws |-> <<>>, w |-> <<>>], t)
  IN IF r.w = <<>> THEN r.ws ELSE Append(r.ws, r.w)

(* a POP3 or SMTP line is its words, of which the first is the command; the
   rest of a USER or PASS line is one argument *)
LineMeans(t, names, most, spaced) ==
  LET b == Body(t)
      w == Words(b)
      okname == w # <<>> /\ b[1] # SP /\ Len(w[1]) = 1 /\ w[1][1] \in names
      rest == SubSeq(b, 2, Len(b))
      lead == CHOOSE i \in 0..Len(rest) : (\A k \in 1..i : rest[k] = SP)
                                          /\ (i = Len(rest) \/ rest[i + 1] # SP)
  IN IF ~okname THEN [rc |-> "INVALID"]
     ELSE IF w[1][1] \in spaced
     THEN [rc |-> "OK", cmd |-> w[1][1],
           args |-> IF lead = Len(rest) THEN <<>> ELSE <<SubSeq(rest, lead + 1, Len(rest))>>]
     ELSE IF Len(w) - 1 > most + 1 THEN [rc |-> "INVALID"]
     ELSE [rc |-> "OK", cmd |-> w[1][1], args |-> Tail(w)]

(* what a parse reports *)
Reported(ps) == IF ps.rc = "OK" THEN [rc |-> "OK", cmd |-> ps.cmd, args |-> ps.args]
                ELSE [rc |-> ps.rc]

(* a text is parsed the same in one piece and in two, and a line gives its
   words; an IMAP line of plain words gives a tag (which may be
   empty), a command and words *)
MailParsesRight(t) ==
  /\ HeaderRight(t)
  /\ StatusRight(t)
  /\ \A proto \in {"pop3", "smtp", "imap"}, k \in 0..Len(t) :
       LET one == Parse(proto, NewCommand, t, k + 1)
           two == Parse(proto, one, t, Len(t) + 1)
           all == Parse(proto, NewCommand, t, Len(t) + 1)
       IN one.rc = "AGAIN" => two = IF all.rc = "INVALID" THEN [all EXCEPT !.pos = k + 1] ELSE all
  /\ IsLine(t) =>
       /\ Reported(Pop3Parse(NewCommand, t, Len(t) + 1)) = LineMeans(t, Pop3Commands, 2, {"USER", "PASS"})
       /\ Reported(SmtpParse(NewCommand, t, Len(t) + 1)) = LineMeans(t, SmtpCommands, 10, {})
       /\ LET b == Body(t)
              w == (IF b # <<>> /\ b[1] = SP THEN <<<<>>>> ELSE <<>>) \o Words(b)
              ok == Len(w) \in 2..5 /\ Len(w[2]) = 1 /\ w[2][1] \in ImapCommands
          IN (\A i \in DOMAIN t : Letters(t[i]) \/ t[i] \in Breaks) =>
               Reported(ImapParse(NewCommand, t, Len(t) + 1)) =
                 IF ok THEN [rc |-> "OK", cmd |-> w[2][1], args |-> SubSeq(w, 3, Len(w))]
                 ELSE [rc |-> "INVALID"]
----------------------------------------------------------------------------
(* An IMAP command as a client writes it: its tag, its name and its arguments,
   each a value in one of the forms of an argument: plain, quoted with escapes,
   a literal or one that does not wait (whose lengths have the digits 1 and 2,
   the only ones that are tokens). *)
Number(n) == IF n < 10 THEN <<ToString(n)>> ELSE <<ToString(n \div 10), ToString(n % 10)>>
Escaped(v) == FoldLeft(LAMBDA acc, ch : acc \o (IF ch \in {"QUOTE", "BACKSLASH"}
                                                THEN <<"BACKSLASH", ch>> ELSE <<ch>>), <<>>, v)
Spelled(a, eol) ==
  CASE a.form = "plain"   -> a.value
    [] a.form = "quoted"  -> <<"QUOTE">> \o Escaped(a.value) \o <<"QUOTE">>
    [] a.form = "literal" -> <<"{">> \o Number(Len(a.value)) \o <<"}">> \o eol \o a.value
    [] a.form = "nosync"  -> <<"{">> \o Number(Len(a.value)) \o <<"+", "}">> \o eol \o a.value
SpelledLine(tag, cmd, args, gap, eol) ==
  tag \o gap \o <<cmd>> \o FoldLeft(LAMBDA acc, a : acc \o gap \o Spelled(a, eol), <<>>, args) \o eol

(* it is read in two pieces, and again after each answer "+" to a literal *)
ReadLine(line, k) ==
  FoldLeft(LAMBDA ps, last : IF ps.rc \in {"AGAIN", "NEXT"} THEN ImapParse(ps, line, last) ELSE ps,
           ImapParse(NewCommand, line, k + 1), [i \in 1..4 |-> Len(line) + 1])

(* what ngx_mail_imap_auth_state() makes of the arguments.  Where a quoted
   string has an escape, the backslashes of all arguments go. *)
Understood(ps) == IF ps.backslash THEN [i \in DOMAIN ps.args |-> Unescaped(ps.args[i])] ELSE ps.args
Escapes(args) == \E i \in DOMAIN args : /\ args[i].form = "quoted"
                                        /\ \E ch \in {"QUOTE", "BACKSLASH"} : ch \in Range(args[i].value)
Meant(args) == [i \in DOMAIN args |-> IF args[i].form # "quoted" /\ Escapes(args)
                                      THEN Unescaped(args[i].value) ELSE args[i].value]

(* however its arguments are written and in whatever pieces it comes, the
   command has its tag, its name and the values of its arguments; more than
   three are refused *)
ImapReadsBack(args) ==
  \A tag \in {<<>>, <<"w", "1">>}, gap \in {<<SP>>, <<SP, SP>>}, eol \in {<<LF>>, <<CR, LF>>} :
    LET line == SpelledLine(tag, "LOGIN", args, gap, eol)
    IN \A k \in 0..Len(line) :
         LET ps == ReadLine(line, k)
         IN IF Len(args) > 3 THEN ps.rc = "INVALID"
            ELSE /\ ps.rc = "OK" /\ ps.cmd = "LOGIN" /\ ps.pos = Len(line) + 1
                 /\ SubSeq(line, 1, ps.tag) = tag \o <<SP>>
                 /\ Understood(ps) = Meant(args)
==============================================================================
