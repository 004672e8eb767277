------------------------------ MODULE HttpParse ------------------------------
(***************************************************************************)
(* The parsers of http/ngx_http_parse.c as operators.  A character is its  *)
(* code, a pointer an address of a memory mem, NULL is 0.  A parser is a   *)
(* step that takes its record r, the address p and the character there;    *)
(* Parse() is the loop around it, which stops and resumes where the buffer *)
(* ends.                                                                   *)
(***************************************************************************)
EXTENDS Integers, Sequences, FiniteSets, SequencesExt

LF == 10
CR == 13
SP == 32
Hash == 35
Percent == 37
Plus == 43
Dot == 46
Slash == 47
Colon == 58
Question == 63
GET == <<71, 69, 84>>

(* the methods that ngx_http_parse_request_line() knows: GET, PUT, POST, COPY,
   MOVE, LOCK, HEAD, MKCOL, PATCH, TRACE, DELETE, UNLOCK, OPTIONS, PROPFIND
   and PROPPATCH *)
Methods ==
  { GET, <<80, 85, 84>>, <<80, 79, 83, 84>>, <<67, 79, 80, 89>>, <<77, 79, 86, 69>>,
    <<76, 79, 67, 75>>, <<72, 69, 65, 68>>, <<77, 75, 67, 79, 76>>, <<80, 65, 84, 67, 72>>,
    <<84, 82, 65, 67, 69>>, <<68, 69, 76, 69, 84, 69>>, <<85, 78, 76, 79, 67, 75>>,
    <<79, 80, 84, 73, 79, 78, 83>>, <<80, 82, 79, 80, 70, 73, 78, 68>>,
    <<80, 82, 79, 80, 80, 65, 84, 67, 72>> }
Unknown == <<>>        \* NGX_HTTP_UNKNOWN

Upper(ch) == ch \in 65..90
Lower(ch) == ch \in 97..122
Letter(ch) == Upper(ch) \/ Lower(ch)
Digit(ch) == ch \in 48..57
LowCase(ch) == IF Upper(ch) THEN ch + 32 ELSE ch

(* the table usual[] *)
Usual(ch) == ch \notin {0, LF, CR, SP, Hash, Percent, Plus, Dot, Slash, Question}

Text(mem, from, to) == [i \in 1..(to - from) |-> mem[from + i - 1]]

To(r, s) == [r EXCEPT !.state = s]
Fail(r, why) == [r EXCEPT !.rc = why]

Refusals == {"invalid_method", "invalid_request", "invalid_header", "error"}

(* the loop over b->pos .. b->last - 1; a refusal returns at once and leaves
   b->pos and r->state as they were *)
Parse(Step(_, _, _), r, mem, pos, last) ==
  LET turn(a, p) == IF a.rc # "again" THEN a
                    ELSE [Step(a, p, mem[p]) EXCEPT !.pos = p + 1]
      end == FoldLeft(turn, [r EXCEPT !.rc = "again", !.pos = pos],
                      [i \in 1..(last - pos) |-> pos + i - 1])
  IN IF end.rc \in Refusals THEN [end EXCEPT !.pos = pos, !.state = r.state] ELSE end
----------------------------------------------------------------------------
(* ngx_http_parse_request_line() *)

NoRequestLine ==
  [state |-> "start", rc |-> "again", pos |-> 0,
   request_start |-> 0, method_end |-> 0, schema_start |-> 0, schema_end |-> 0,
   host_start |-> 0, host_end |-> 0, port_end |-> 0,
   uri_start |-> 0, uri_end |-> 0, uri_ext |-> 0, args_start |-> 0,
   http_protocol |-> 0, request_end |-> 0,
   complex_uri |-> FALSE, quoted_uri |-> FALSE, plus_in_uri |-> FALSE,
   space_in_uri |-> FALSE, http_major |-> 0, http_minor |-> 0, method |-> Unknown]

(* done: *)
LineDone(r, p) ==
  LET nine == r.http_major * 1000 + r.http_minor = 9 IN
  [r EXCEPT !.request_end = IF @ = 0 THEN p ELSE @, !.state = "start",
            !.rc = IF nine /\ r.method # GET THEN "invalid_09_method" ELSE "ok"]

(* CR or LF where the protocol is missing *)
Nine(r, p, ch) ==
  IF ch = CR THEN To([r EXCEPT !.http_minor = 9], "almost_done")
  ELSE LineDone([r EXCEPT !.http_minor = 9], p)

MethodStep(r, p, ch, mem) ==
  LET named == Upper(ch) \/ ch = 95 IN
  CASE r.state = "start" ->
         LET s == [r EXCEPT !.request_start = p] IN
         IF ch \in {CR, LF} THEN s
         ELSE IF named THEN To(s, "method") ELSE Fail(s, "invalid_method")
    [] r.state = "method" /\ ch = SP ->
         LET m == Text(mem, r.request_start, p) IN
         To([r EXCEPT !.method_end = p - 1, !.method = IF m \in Methods THEN m ELSE @],
            "spaces_before_uri")
    [] r.state = "method" /\ ch # SP ->
         IF named THEN r ELSE Fail(r, "invalid_method")

(* to the path of an absolute URI that has none: the two slashes after the
   schema stand for it *)
NoPath(r) == To([r EXCEPT !.uri_start = r.schema_end + 1,
                          !.uri_end = r.schema_end + 2], "host_http_09")

SchemaStep(r, p, ch) ==
  LET path(s) == To([s EXCEPT !.uri_start = p], "after_slash_in_uri")
      bad == Fail(r, "invalid_request")
  IN
  CASE r.state = "spaces_before_uri" ->
         IF ch = Slash THEN path(r) ELSE IF Letter(ch) THEN To([r EXCEPT !.schema_start = p], "schema")
         ELSE IF ch = SP THEN r ELSE bad
    [] r.state = "schema" ->
         IF Letter(ch) THEN r
         ELSE IF ch = Colon THEN To([r EXCEPT !.schema_end = p], "schema_slash") ELSE bad
    [] r.state = "schema_slash" ->
         IF ch = Slash THEN To(r, "schema_slash_slash") ELSE bad
    [] r.state = "schema_slash_slash" ->
         IF ch = Slash THEN To([r EXCEPT !.host_start = p + 1], "host") ELSE bad
    [] r.state = "host" ->
         LET s == [r EXCEPT !.host_end = p] IN
         IF Letter(ch) \/ Digit(ch) \/ ch \in {Dot, 45} THEN r
         ELSE IF ch = Colon THEN To(s, "port")
         ELSE IF ch = Slash THEN path(s) ELSE IF ch = SP THEN NoPath(s)
         ELSE Fail(s, "invalid_request")
    [] r.state = "port" ->
         LET s == [r EXCEPT !.port_end = p] IN
         IF Digit(ch) THEN r
         ELSE IF ch = Slash THEN path(s) ELSE IF ch = SP THEN NoPath(s) ELSE bad

(* sw_after_slash_in_uri and sw_check_uri: while the path needs no rewriting *)
PathStep(r, p, ch) ==
  LET after == r.state = "after_slash_in_uri"
      ended == [r EXCEPT !.uri_end = p]
  IN
  CASE Usual(ch)       -> To(r, "check_uri")
    [] ch = SP         -> To(ended, "check_uri_http_09")
    [] ch \in {CR, LF} -> Nine(ended, p, ch)
    [] ch = Dot        -> IF after THEN To([r EXCEPT !.complex_uri = TRUE], "uri")
                          ELSE [r EXCEPT !.uri_ext = p + 1]
    [] ch = Slash      -> IF after THEN To([r EXCEPT !.complex_uri = TRUE], "uri")
                          ELSE To([r EXCEPT !.uri_ext = 0], "after_slash_in_uri")
    [] ch = Percent    -> To([r EXCEPT !.quoted_uri = TRUE], "uri")
    [] ch = Question   -> To([r EXCEPT !.args_start = p + 1], "uri")
    [] ch = Hash       -> To([r EXCEPT !.complex_uri = TRUE], "uri")
    [] ch = Plus       -> [r EXCEPT !.plus_in_uri = TRUE]
    [] ch = 0          -> Fail(r, "invalid_request")

(* sw_uri: the rest of a URI that is normalised later, or its arguments *)
UriStep(r, p, ch) ==
  LET ended == [r EXCEPT !.uri_end = p] IN
  CASE ch = SP         -> To(ended, "http_09")
    [] ch \in {CR, LF} -> Nine(ended, p, ch)
    [] ch = Hash       -> [r EXCEPT !.complex_uri = TRUE]
    [] ch = 0          -> Fail(r, "invalid_request")
    [] OTHER           -> r

(* sw_host_http_09, sw_check_uri_http_09 and sw_http_09: after a space *)
SpaceStep(r, p, ch) ==
  CASE ch = SP         -> r
    [] ch \in {CR, LF} -> Nine(r, p, ch)
    [] ch = 72         -> To([r EXCEPT !.http_protocol = p], "http_H")
    [] OTHER ->
         CASE r.state = "host_http_09"      -> Fail(r, "invalid_request")
           [] r.state = "check_uri_http_09" -> To([r EXCEPT !.space_in_uri = TRUE], "check_uri")
           [] r.state = "http_09"           -> To([r EXCEPT !.space_in_uri = TRUE], "uri")

Protocol == [http_H |-> <<84, "http_HT">>, http_HT |-> <<84, "http_HTT">>,
             http_HTT |-> <<80, "http_HTTP">>,
             http_HTTP |-> <<Slash, "first_major_digit">>]

ProtocolStep(r, p, ch) ==
  LET bad == Fail(r, "invalid_request")
      end == IF ch = CR THEN To(r, "almost_done") ELSE LineDone(r, p)
      d   == ch - 48
  IN
  CASE r.state \in DOMAIN Protocol ->
         IF ch = Protocol[r.state][1] THEN To(r, Protocol[r.state][2]) ELSE bad
    [] r.state = "first_major_digit" ->
         IF ch \in 49..57 THEN To([r EXCEPT !.http_major = d], "major_digit") ELSE bad
    [] r.state = "major_digit" ->
         IF ch = Dot THEN To(r, "first_minor_digit")
         ELSE IF Digit(ch) THEN [r EXCEPT !.http_major = @ * 10 + d] ELSE bad
    [] r.state = "first_minor_digit" ->
         IF Digit(ch) THEN To([r EXCEPT !.http_minor = d], "minor_digit") ELSE bad
    [] r.state = "minor_digit" ->
         IF ch \in {CR, LF} THEN end ELSE IF ch = SP THEN To(r, "spaces_after_digit")
         ELSE IF Digit(ch) THEN [r EXCEPT !.http_minor = @ * 10 + d] ELSE bad
    [] r.state = "spaces_after_digit" ->
         IF ch = SP THEN r ELSE IF ch \in {CR, LF} THEN end ELSE bad
    [] r.state = "almost_done" ->
         LET s == [r EXCEPT !.request_end = p - 1] IN
         IF ch = LF THEN LineDone(s, p) ELSE Fail(s, "invalid_request")

RequestLineStep(r, p, ch, mem) ==
  CASE r.state \in {"start", "method"} -> MethodStep(r, p, ch, mem)
    [] r.state \in {"spaces_before_uri", "schema", "schema_slash",
                    "schema_slash_slash", "host", "port"} -> SchemaStep(r, p, ch)
    [] r.state \in {"after_slash_in_uri", "check_uri"} -> PathStep(r, p, ch)
    [] r.state = "uri" -> UriStep(r, p, ch)
    [] r.state \in {"host_http_09", "check_uri_http_09", "http_09"} -> SpaceStep(r, p, ch)
    [] OTHER -> ProtocolStep(r, p, ch)

ParseRequestLine(r, mem, pos, last) ==
  Parse(LAMBDA a, p, ch : RequestLineStep(a, p, ch, mem), r, mem, pos, last)
----------------------------------------------------------------------------
(* ngx_http_parse_header_line(): the rules for a request (under: underscores
   are allowed) and, with upstream, for the response of an upstream *)

NoHeaderLine ==
  [state |-> "start", rc |-> "again", pos |-> 0, name_start |-> 0, name_end |-> 0,
   start |-> 0, end |-> 0, invalid |-> FALSE]

InName(ch) == Letter(ch) \/ Digit(ch) \/ ch = 45      \* the table lowcase[]

HeaderDone(r) == [r EXCEPT !.state = "start", !.rc = "ok"]
HeadersDone(r) == [r EXCEPT !.state = "start", !.rc = "header_done"]
EmptyValue(r, p) == [r EXCEPT !.start = p, !.end = p]
EndOfLine(r, ch) == IF ch = CR THEN To(r, "almost_done") ELSE HeaderDone(r)

NameStep(r, p, ch, mem, under, upstream) ==
  LET bad == Fail(r, "invalid_header") IN
  CASE r.state = "start" ->
         LET s == [r EXCEPT !.name_start = p, !.invalid = FALSE] IN
         (CASE ch = CR -> To([s EXCEPT !.end = p], "header_almost_done")
            [] ch = LF -> HeadersDone([s EXCEPT !.end = p])
            [] ch = 0  -> bad
            [] OTHER   -> To([s EXCEPT !.invalid = ~InName(ch)], "name"))
    [] r.state = "name" ->
         (CASE InName(ch) -> r
            [] ch = 95    -> IF under THEN r ELSE [r EXCEPT !.invalid = TRUE]
            [] ch = Colon -> To([r EXCEPT !.name_end = p], "space_before_value")
            [] ch \in {CR, LF} -> EndOfLine(EmptyValue([r EXCEPT !.name_end = p], p), ch)
            [] ch = Slash /\ upstream /\ Text(mem, r.name_start, p) = <<72, 84, 84, 80>> ->
                 To(r, "ignore_line")
            [] ch = 0     -> bad
            [] OTHER      -> [r EXCEPT !.invalid = TRUE])

ValueStep(r, p, ch) ==
  LET bad == Fail(r, "invalid_header") IN
  CASE ch = 0 /\ r.state \in {"space_before_value", "value", "space_after_value"} -> bad
    [] ch # 0 /\ r.state = "space_before_value" ->
         IF ch = SP THEN r ELSE IF ch \in {CR, LF} THEN EndOfLine(EmptyValue(r, p), ch)
         ELSE To([r EXCEPT !.start = p], "value")
    [] ch # 0 /\ r.state = "value" ->
         LET s == [r EXCEPT !.end = p] IN
         IF ch = SP THEN To(s, "space_after_value")
         ELSE IF ch \in {CR, LF} THEN EndOfLine(s, ch) ELSE r
    [] ch # 0 /\ r.state = "space_after_value" ->
         IF ch = SP THEN r ELSE IF ch \in {CR, LF} THEN EndOfLine(r, ch) ELSE To(r, "value")
    [] r.state = "ignore_line" -> IF ch = LF THEN To(r, "start") ELSE r
    [] r.state = "almost_done" ->
         IF ch = LF THEN HeaderDone(r) ELSE IF ch = CR THEN r ELSE bad
    [] r.state = "header_almost_done" -> IF ch = LF THEN HeadersDone(r) ELSE bad

ParseHeaderLine(r, mem, pos, last, under, upstream) ==
  Parse(LAMBDA a, p, ch : IF a.state \in {"start", "name"}
                          THEN NameStep(a, p, ch, mem, under, upstream)
                          ELSE ValueStep(a, p, ch), r, mem, pos, last)
----------------------------------------------------------------------------
(* ngx_http_parse_status_line() *)

NoStatusLine ==
  [state |-> "start", rc |-> "again", pos |-> 0, code |-> 0, count |-> 0,
   start |-> 0, end |-> 0]

StatusWord == [start |-> <<72, "H">>, H |-> <<84, "HT">>, HT |-> <<84, "HTT">>,
               HTT |-> <<80, "HTTP">>, HTTP |-> <<Slash, "first_major_digit">>]

StatusDone(r, p) == [r EXCEPT !.end = IF @ = 0 THEN p ELSE @, !.state = "start", !.rc = "ok"]

StatusStep(r, p, ch) ==
  LET bad == Fail(r, "error")
      end == IF ch = CR THEN To(r, "almost_done") ELSE StatusDone(r, p)
  IN
  CASE r.state \in DOMAIN StatusWord ->
         IF ch = StatusWord[r.state][1] THEN To(r, StatusWord[r.state][2]) ELSE bad
    [] r.state = "first_major_digit" -> IF ch \in 49..57 THEN To(r, "major_digit") ELSE bad
    [] r.state = "major_digit" ->
         IF ch = Dot THEN To(r, "first_minor_digit") ELSE IF Digit(ch) THEN r ELSE bad
    [] r.state = "first_minor_digit" -> IF Digit(ch) THEN To(r, "minor_digit") ELSE bad
    [] r.state = "minor_digit" ->
         IF ch = SP THEN To(r, "status") ELSE IF Digit(ch) THEN r ELSE bad
    [] r.state = "status" ->
         IF ch = SP THEN r ELSE IF ~Digit(ch) THEN bad
         ELSE LET s == [r EXCEPT !.code = @ * 10 + ch - 48, !.count = @ + 1] IN
              IF s.count = 3 THEN To([s EXCEPT !.start = p - 2], "space_after_status") ELSE s
    [] r.state = "space_after_status" ->
         IF ch \in {SP, Dot} THEN To(r, "status_text")
         ELSE IF ch \in {CR, LF} THEN end ELSE bad
    [] r.state = "status_text" -> IF ch \in {CR, LF} THEN end ELSE r
    [] r.state = "almost_done" ->
         LET s == [r EXCEPT !.end = p - 1] IN
         IF ch = LF THEN StatusDone(s, p) ELSE Fail(s, "error")

ParseStatusLine(r, mem, pos, last) == Parse(StatusStep, r, mem, pos, last)
----------------------------------------------------------------------------
(* ngx_http_parse_complex_uri() on the text t of a URI.  u is what is written
   to r->uri, ext the place of the extension in it, args the arguments. *)

HexDigit(ch) == Digit(ch) \/ ch \in 65..70 \/ ch \in 97..102
HexValue(ch) == IF Digit(ch) THEN ch - 48 ELSE LowCase(ch) - 87

(* a mutant: it stops at the slash it came over *)
ClimbShort(u) ==
  LET k == {i \in 1..(Len(u) - 2) : u[i] = Slash}
  IN IF k = {} THEN <<>> ELSE SubSeq(u, 1, CHOOSE i \in k : \A j \in k : j <= i)

(* "/../": back to the slash before the segment before *)
Climb(u) ==
  LET k == {i \in 1..(Len(u) - 4) : u[i] = Slash}
  IN IF k = {} THEN <<>> ELSE SubSeq(u, 1, CHOOSE i \in k : \A j \in k : j <= i)

Normal(a, ch) == [a EXCEPT !.u = Append(@, ch), !.state = "usual",
                           !.plus = @ \/ ch = Plus]

(* a character in one of the states usual, slash, dot and dot_dot *)
UriChar(a, ch, merge_slashes) ==
  CASE ch = Percent  -> [a EXCEPT !.quoted_state = a.state, !.state = "quoted"]
    [] ch = Question -> [a EXCEPT !.rc = "args"]
    [] ch = Hash     -> [a EXCEPT !.rc = "done"]
    [] ch = Slash /\ a.state = "usual" ->
         [a EXCEPT !.ext = 0, !.state = "slash", !.u = Append(@, ch)]
    [] ch = Slash /\ a.state = "slash" ->
         IF merge_slashes THEN a ELSE [a EXCEPT !.u = Append(@, ch)]
    [] ch = Slash /\ a.state = "dot" -> [a EXCEPT !.state = "slash", !.u = Front(@)]
    [] ch = Slash /\ a.state = "dot_dot" ->
         IF Climb(a.u) = <<>> THEN [a EXCEPT !.rc = "invalid"]
         ELSE [a EXCEPT !.state = "slash", !.u = Climb(@)]
    [] ch = Dot /\ a.state = "usual" ->
         [a EXCEPT !.ext = Len(a.u) + 2, !.u = Append(@, ch)]
    [] ch = Dot /\ a.state = "slash" -> [a EXCEPT !.state = "dot", !.u = Append(@, ch)]
    [] ch = Dot /\ a.state = "dot" -> [a EXCEPT !.state = "dot_dot", !.u = Append(@, ch)]
    [] OTHER -> Normal(a, ch)

(* the second digit of %XX: a few characters stay what they are, the others
   are taken again in the state before the percent sign *)
Decoded(a, ch, merge_slashes) ==
  LET c == 16 * a.decoded + HexValue(ch)
      literal == IF Digit(ch) THEN {Percent, Hash} ELSE {Question}
  IN IF Digit(ch) /\ c = 0 THEN [a EXCEPT !.rc = "invalid"]
     ELSE IF c \in literal THEN [a EXCEPT !.state = "usual", !.u = Append(@, c)]
     ELSE LET s == [a EXCEPT !.state = a.quoted_state, !.plus = @ \/ c = Plus]
          IN UriChar(s, c, merge_slashes)

ComplexStep(a, i, ch, merge_slashes) ==
  IF a.rc # "again" THEN a
  ELSE LET b == CASE a.state = "quoted" ->
                       IF HexDigit(ch)
                       THEN [a EXCEPT !.decoded = HexValue(ch), !.state = "quoted_second"]
                       ELSE [a EXCEPT !.rc = "invalid"]
                  [] a.state = "quoted_second" ->
                       IF HexDigit(ch) THEN Decoded(a, ch, merge_slashes)
                       ELSE [a EXCEPT !.rc = "invalid"]
                  [] OTHER -> UriChar(a, ch, merge_slashes)
       IN [b EXCEPT !.last = i]

ParseComplexUri(t, merge_slashes) ==
  LET a == FoldLeft(LAMBDA acc, i : ComplexStep(acc, i, t[i], merge_slashes),
                    [state |-> "usual", quoted_state |-> "usual", decoded |-> 0, u |-> <<>>,
                     ext |-> 0, plus |-> FALSE, rc |-> "again", last |-> 0],
                    [i \in 1..Len(t) |-> i])
      hash == {i \in (a.last + 1)..Len(t) : t[i] = Hash}
      end  == IF hash = {} THEN Len(t) ELSE (CHOOSE i \in hash : \A j \in hash : i <= j) - 1
  IN [ rc |-> IF a.rc = "invalid" THEN "invalid" ELSE "ok",
       uri |-> a.u,
       exten |-> IF a.ext = 0 THEN <<>> ELSE SubSeq(a.u, a.ext, Len(a.u)),
       args |-> IF a.rc = "args" THEN SubSeq(t, a.last + 1, end) ELSE <<>> ]
----------------------------------------------------------------------------
(* ngx_http_parse_unsafe_uri(): the URI of an X-Accel-Redirect, a Destination
   or an SSI include.  The text after the end of the string is unknown: next. *)
ParseUnsafeUri(t, next) ==
  LET At(i) == IF i <= Len(t) THEN t[i] ELSE next
      q == {i \in DOMAIN t : t[i] = Question}
      n == IF q = {} THEN Len(t) ELSE (CHOOSE i \in q : \A j \in q : i <= j) - 1
      unsafe == \/ t = <<>> \/ t[1] = Question
                \/ Len(t) = 3 /\ t[1] = Dot /\ t[2] = Dot /\ t[3] = Slash
                \/ \E i \in 1..n :
                     \/ t[i] = 0
                     \/ /\ t[i] = Slash /\ Len(t) - i + 1 > 2
                        /\ At(i + 1) = Dot /\ At(i + 2) = Dot /\ At(i + 3) = Slash
  IN IF unsafe THEN [rc |-> "error", uri |-> t, args |-> <<>>]
     ELSE [rc |-> "ok", uri |-> SubSeq(t, 1, n),
           args |-> IF q = {} THEN <<>> ELSE SubSeq(t, n + 2, Len(t))]

(* ngx_http_split_args() *)
SplitArgs(t) ==
  LET q == {i \in DOMAIN t : t[i] = Question}
      n == CHOOSE i \in q : \A j \in q : i <= j
  IN IF q = {} THEN [uri |-> t, args |-> <<>>]
     ELSE [uri |-> SubSeq(t, 1, n - 1), args |-> SubSeq(t, n + 1, Len(t))]

(* ngx_http_arg(): the first place of the name, in any case, that follows the
   start or a "&" and has a "=" after it *)
HttpArg(args, name) ==
  LET len == Len(name)
      Found == {p \in 1..(Len(args) - len) :
                  /\ \A i \in 1..len : LowCase(args[p + i - 1]) = LowCase(name[i])
                  /\ p = 1 \/ args[p - 1] = 38
                  /\ args[p + len] = 61}
      p == CHOOSE x \in Found : \A y \in Found : x <= y
      amp == {i \in p..Len(args) : args[i] = 38}
      end == IF amp = {} THEN Len(args) ELSE (CHOOSE i \in amp : \A j \in amp : i <= j) - 1
  IN IF Found = {} THEN [rc |-> "declined", value |-> <<>>]
     ELSE [rc |-> "ok", value |-> SubSeq(args, p + len + 1, end)]

(* ngx_http_parse_multi_header_lines() with a value, on one line v.  What comes
   after an item that has the name and no "=" is passed over with it, also when
   it is the separator. *)
MultiHeader(v, name) ==
  LET len == Len(name)
      n   == Len(v)
      At(i, chars) == i <= n /\ v[i] \in chars
      Spaces(i) == CHOOSE k \in i..(n + 1) : ~At(k, {SP}) /\ \A j \in i..(k - 1) : v[j] = SP
      Until(i, chars) == CHOOSE k \in i..(n + 1) :
                        (k > n \/ At(k, chars)) /\ \A j \in i..(k - 1) : ~At(j, chars)
      Skip(i) == LET k == Until(i, {44, 59}) IN IF k > n THEN k ELSE Spaces(k + 1)
      scan[i \in 1..(n + 1)] ==
        LET named == i + len <= n + 1 /\ \A k \in 1..len : LowCase(v[i + k - 1]) = LowCase(name[k])
            eq    == Spaces(i + len)
            from  == Spaces(eq + 1)
        IN IF i > n THEN [rc |-> "declined", value |-> <<>>]
           ELSE IF ~named THEN scan[Skip(i)]
           ELSE IF At(eq, {61}) THEN [rc |-> "ok", value |-> SubSeq(v, from, Until(from, {59}) - 1)]
           ELSE IF eq > n THEN scan[eq] ELSE scan[Skip(eq + 1)]
  IN scan[1]

(* ngx_http_validate_host(): the host without its port and its last dot, or
   <<>> if it cannot be one *)
ValidateHost(h) ==
  LET bad == \E i \in DOMAIN h :
               \/ h[i] \in {0, Slash}
               \/ i > 1 /\ h[i] = Dot /\ h[i - 1] = Dot
      colon == {i \in DOMAIN h : h[i] = Colon}
      last == IF colon = {} THEN Len(h) ELSE (CHOOSE i \in colon : \A j \in colon : j <= i) - 1
      dot == h # <<>> /\ h[Len(h)] = Dot
  IN IF bad THEN <<>>
     ELSE [i \in 1..(IF dot THEN last - 1 ELSE last) |-> LowCase(h[i])]
----------------------------------------------------------------------------
(* What a URI stands for, defined on its text as a whole *)

First(t, chars) == LET k == {i \in DOMAIN t : t[i] \in chars} IN
                   IF k = {} THEN Len(t) + 1 ELSE CHOOSE i \in k : \A j \in k : i <= j

(* the text with every %XX replaced; an escape that the end of the URI cuts
   off is dropped *)
Unescaped(t) ==
  LET d[i \in 1..(Len(t) + 3)] ==
        IF i > Len(t) THEN <<>>
        ELSE IF t[i] # Percent THEN <<t[i]>> \o d[i + 1]
        ELSE IF i + 2 > Len(t) THEN <<>>
        ELSE <<16 * HexValue(t[i + 1]) + HexValue(t[i + 2])>> \o d[i + 3]
  IN d[1]

(* every escape is whole, or cut off by the end of the URI *)
EscapesValid(t, path) ==
  LET starts[i \in 1..(Len(path) + 3)] ==
        IF i > Len(path) THEN {}
        ELSE IF path[i] # Percent THEN starts[i + 1] ELSE {i} \cup starts[i + 3]
      At(i) == IF i <= Len(path) THEN HexDigit(path[i]) ELSE path = t
  IN \A i \in starts[1] :
       /\ At(i + 1) /\ At(i + 2)
       /\ i + 2 <= Len(path) => <<path[i + 1], path[i + 2]>> # <<48, 48>>

(* the pieces of a text between the separators *)
Split(t, separators) ==
  LET g[i \in 1..(Len(t) + 1)] ==
        IF i > Len(t) THEN << <<>> >>
        ELSE IF t[i] \in separators THEN << <<>> >> \o g[i + 1]
        ELSE <<(<<t[i]>> \o Head(g[i + 1]))>> \o Tail(g[i + 1])
  IN g[1]
Segments(t) == Split(t, {Slash})

(* the directories of a path: "." and empty ones are left out, ".." takes one
   away; ok is false when there was none to take *)
Directories(segs) ==
  FoldLeft(LAMBDA acc, g : IF g \in {<<>>, <<Dot>>} THEN acc
                           ELSE IF g # <<Dot, Dot>> THEN [acc EXCEPT !.dirs = Append(@, g)]
                           ELSE IF acc.dirs = <<>> THEN [acc EXCEPT !.ok = FALSE]
                           ELSE [acc EXCEPT !.dirs = Front(@)],
           [dirs |-> <<>>, ok |-> TRUE], segs)

PathOf(t) == SubSeq(t, 1, First(t, {Question, Hash}) - 1)

(* the path ends in "/." or "/..", with nothing after it *)
DotsAtEnd(t) ==
  Last(Segments(Tail(Unescaped(PathOf(t))))) \in {<<Dot>>, <<Dot, Dot>>}

(* The URI with every segment resolved, or with the last one kept as it is *)
UriSpec(t, keepLast) ==
  LET end  == First(t, {Question, Hash})
      path == PathOf(t)
      segs == Segments(Tail(Unescaped(path)))
      whole == DotsAtEnd(t) /\ ~keepLast
      dirs == Directories(IF whole THEN segs ELSE Front(segs))
      file == IF whole THEN <<>> ELSE Last(segs)
      dots == {i \in DOMAIN file : file[i] = Dot
                 /\ SubSeq(file, 1, i - 1) \notin {<<>>, <<Dot>>, <<Dot, Dot>>}}
      q    == SubSeq(t, end + 1, Len(t))
  IN IF ~EscapesValid(t, path) THEN [rc |-> "invalid"]
     ELSE IF ~dirs.ok THEN [rc |-> "invalid"]
     ELSE [ rc |-> "ok",
            uri |-> FoldLeft(LAMBDA acc, s : acc \o s \o <<Slash>>, <<Slash>>, dirs.dirs) \o file,
            exten |-> IF dots = {} THEN <<>>
                      ELSE SubSeq(file, (CHOOSE i \in dots : \A j \in dots : j <= i) + 1, Len(file)),
            args |-> IF end <= Len(t) /\ t[end] = Question
                     THEN SubSeq(q, 1, First(q, {Hash}) - 1) ELSE <<>> ]

(* what a request line with the URI t is turned into: ngx_http_parse_request_line()
   and, for a URI that needs it, ngx_http_parse_complex_uri() *)
ParsedUri(t) ==
  LET m   == GET \o <<SP>> \o t \o <<SP, 72, 84, 84, 80, Slash, 49, Dot, 49, LF>>
      r   == ParseRequestLine(NoRequestLine, m, 1, Len(m) + 1)
      end == IF r.args_start # 0 THEN r.args_start - 1 ELSE r.uri_end
  IN IF r.rc # "ok" THEN [rc |-> r.rc]
     ELSE IF r.complex_uri \/ r.quoted_uri
     THEN ParseComplexUri(Text(m, r.uri_start, r.uri_end), TRUE)
     ELSE [ rc |-> "ok", uri |-> Text(m, r.uri_start, end),
            exten |-> IF r.uri_ext # 0 THEN Text(m, r.uri_ext, end) ELSE <<>>,
            args |-> IF r.args_start # 0 THEN Text(m, r.args_start, r.uri_end) ELSE <<>> ]

(* A URI in a request line means what its text says as a whole: the escapes
   are decoded once, "." and ".." and double slashes are resolved, a path
   above the root is refused, and the extension and the arguments are those
   of what is left.  One exception is the code's: a "." or ".." that ends the
   path is neither resolved nor refused but kept, and the rest of the path is
   as it should be.  (http/ngx_http_parse.c) *)
UriParsesRight(t) ==
  LET u    == ParsedUri(t)
      spec == UriSpec(t, DotsAtEnd(t))
  IN u.rc = spec.rc /\ (u.rc = "ok" => u = spec)

(* A status line of an upstream: the code is that of the first three digits
   after the version, which only spaces part, the text starts with them and
   ends before the end of the line.  (ngx_http_parse_status_line) *)
StatusParsesRight(t) ==
  LET r     == ParseStatusLine(NoStatusLine, t, 1, Len(t) + 1)
      n     == First(t, {LF})
      end   == IF n > 1 /\ t[n - 1] = CR THEN n - 1 ELSE n
      All(a, b, chars) == \A i \in a..b : t[i] \in chars
      Digits == 48..57
  IN n = Len(t) =>
     (r.rc = "ok" <=>
        /\ First(t, {CR}) = (IF end < n THEN end ELSE n + 1)
        /\ SubSeq(t, 1, 5) = <<72, 84, 84, 80, Slash>>
        /\ \E d, v \in 6..n, x, y, z \in 6..n :
             /\ d < v /\ v < x /\ x < y /\ y < z /\ z < end
             /\ d > 6 /\ t[d] = Dot /\ All(6, d - 1, Digits) /\ t[6] # 48
             /\ v > d + 1 /\ t[v] = SP /\ All(d + 1, v - 1, Digits)
             /\ All(v + 1, z - 1, Digits \cup {SP})
             /\ \A i \in (v + 1)..z : t[i] \in Digits <=> i \in {x, y, z}
             /\ z + 1 < end => t[z + 1] \in {SP, Dot}
             /\ r.code = 100 * t[x] + 10 * t[y] + t[z] - 111 * 48
             /\ r.start = z - 2 /\ r.end = end)

(* A URI that an upstream or a document names (X-Accel-Redirect, SSI) is only
   used if no "../" in it climbs, whatever follows the string in memory, and is
   split where the arguments begin.  A ".." at its very end is let through: the
   code looks for the slash after it.  (ngx_http_parse_unsafe_uri) *)
UnsafeRefused(t) ==
  \A next \in {0, Dot, Slash} :
    LET u == ParseUnsafeUri(t, next)
    IN u.rc = "ok" => /\ <<Dot, Dot>> \notin Range(Front(Segments(u.uri)))
                      /\ SplitArgs(t) = [uri |-> u.uri, args |-> u.args]

(* the item is the name, then a "=" *)
Names(item, name) ==
  LET rest == SubSeq(item, Len(name) + 1, Len(item))
      eq   == First(rest, {61})
  IN /\ Len(item) > Len(name) /\ eq <= Len(rest)
     /\ \A i \in DOMAIN name : LowCase(item[i]) = LowCase(name[i])
     /\ \A i \in 1..(eq - 1) : rest[i] = SP
ValueOf(item) == SubSeq(item, First(item, {61}) + 1, Len(item))

(* An argument is the value of the first pair with its name, and an item of a
   Cookie header is the first with its name too, up to the next ";" - unless an
   item before it is the name alone, which hides the next one.
   (ngx_http_arg, ngx_http_parse_multi_header_lines) *)
ValuesFound(t, name) ==
  LET pairs == SelectSeq(Split(t, {38}), LAMBDA x : Names(x, name) /\ x[Len(name) + 1] = 61)
      arg   == HttpArg(t, name)
      Led(x) == SubSeq(x, CHOOSE k \in 1..(Len(x) + 1) :
                            (k > Len(x) \/ x[k] # SP) /\ \A j \in 1..(k - 1) : x[j] = SP, Len(x))
      starts == {i \in DOMAIN t : i = 1 \/ t[i - 1] \in {44, 59}}
      Item(i) == IF i = 1 THEN t ELSE Led(SubSeq(t, i, Len(t)))
      Alone(i) == LET x == Led(Head(Split(IF i = 1 THEN t ELSE Item(i), {44, 59})))
                  IN Len(x) >= Len(name) /\ \A k \in DOMAIN x :
                       IF k <= Len(name) THEN LowCase(x[k]) = LowCase(name[k]) ELSE x[k] = SP
      found == {i \in starts : Names(Item(i), name)}
      item  == Item(CHOOSE i \in found : \A j \in found : i <= j)
      value == MultiHeader(t, name)
  IN /\ arg.rc = "ok" <=> pairs # <<>>
     /\ arg.rc = "ok" => arg.value = ValueOf(Head(pairs))
     /\ (\A i \in starts : ~Alone(i)) =>
          /\ value.rc = "ok" <=> found # {}
          /\ value.rc = "ok" => value.value = Led(ValueOf(Head(Split(item, {59}))))
==============================================================================
